---- MODULE Spec2Model ----
(***************************************************************************)
(* Resume screener: the resume-to-job matching pipeline of                 *)
(* src/src/llm_matcher.py (prompt builder, language-model client, response *)
(* parser, fallback scorer, batch matcher), the upload and text extraction *)
(* of src/src/resume_parser.py and the request handlers and storage of     *)
(* src/src/app.py and src/src/database.py.                                 *)
(*                                                                         *)
(* Text is modelled as a sequence of tokens.  A token is one character of  *)
(* punctuation or white space (",", " ", "\n", ":", "-", ".", a digit) or  *)
(* one word, a maximal run of other characters ("Python").  The string     *)
(* operations the code uses (lower, strip, split, the regular expressions  *)
(* of the parser) only look at punctuation, white space and whole words,   *)
(* so they are computed token by token.                                    *)
(***************************************************************************)
EXTENDS Integers, Sequences, FiniteSets, TLC

VARIABLES
    pc,            \* position of the running call
    resumes,       \* the resumes handed to the running call
    job,           \* the job record handed to the running call
    i,             \* index of the resume being matched (loop variable)
    prompt,        \* prompt built for resumes[i]
    llm_response,  \* what generate_llm_response returned for resumes[i]
    match_result,  \* what match_resume_to_job returned for resumes[i]
    results,       \* batch_match_resumes: the list being collected / returned
    calls,         \* log of language-model invocations (resume index, outcome)
    via,           \* which scorer produced match_result: "parse", "fallback"
    raised,        \* exception that left the running call ("" when none)
    db,            \* storage: the rows of resumes, job_descriptions, match_results
    files,         \* paths of the files saved in the upload folder
    http,          \* the request being served and the response given to it
    extract        \* text extraction of the uploaded file: attempts, text, fields

vars == <<pc, resumes, job, i, prompt, llm_response, match_result, results,
          calls, via, raised, db, files, http, extract>>

\* state of the web application around the matcher
app_vars == <<db, files, http, extract>>

\* create_tables: three empty tables; AUTOINCREMENT ids start at 1
EmptyDb ==
    [resumes |-> <<>>, jobs |-> <<>>, matches |-> <<>>,
     next_resume |-> 1, next_job |-> 1, next_match |-> 1]

NoRequest == [op |-> "", arg |-> <<>>, status |-> 0, error |-> "", body |-> <<>>, count |-> 0]

NoExtract == [path |-> <<>>, text |-> <<>>, log |-> <<>>, parsed |-> [none |-> TRUE]]

\* the matcher called on its own, no request being served
AppIdle ==
    /\ db = EmptyDb
    /\ files = {}
    /\ http = NoRequest
    /\ extract = NoExtract

(***************************************************************************)
(* Bounds of the model.                                                    *)
(***************************************************************************)
MaxSkills == 11     \* longest skill list of the pooled family
MaxListLen == 2     \* longest freely enumerated skill list
MaxStrLen == 3      \* longest freely enumerated comma-delimited string (tokens)
MaxPermute == 3     \* sets up to this size are listed in every order
MaxBatch == 3       \* most resumes in one batch
MaxReplyLen == 3    \* longest freely enumerated reply (tokens)
MaxItems == 11      \* most items of a generated skills section

(***************************************************************************)
(* Python values.  A dict field is missing, None, a str or a list.         *)
(***************************************************************************)
MissingV == [kind |-> "missing", val |-> <<>>]
NullV == [kind |-> "null", val |-> <<>>]
StrV(s) == [kind |-> "str", val |-> s]
ListV(l) == [kind |-> "list", val |-> l]

\* dict.get(key, default): the default only when the key is absent
Get(field, default) == IF field.kind = "missing" THEN default ELSE field

Range(s) == {s[k] : k \in 1..Len(s)}

Take(s, n) == SubSeq(s, 1, IF Len(s) < n THEN Len(s) ELSE n)

\* one-word string
W(x) == <<x>>

(***************************************************************************)
(* str.lower, str.strip, str.split                                         *)
(***************************************************************************)
LowerTok(t) ==
    CASE t = "Python" -> "python"
      [] t = "Flask" -> "flask"
      [] t = "SQL" -> "sql"
      [] t = "Docker" -> "docker"
      [] t = "PostgreSQL" -> "postgresql"
      [] t = "AWS" -> "aws"
      [] t = "PDF" -> "pdf"
      [] t = "Years" -> "years"
      [] t = "Experience" -> "experience"
      [] t = "EXPERIENCE" -> "experience"
      [] t = "Education" -> "education"
      [] t = "Skills" -> "skills"
      [] t = "Java" -> "java"
      [] t = "JavaScript" -> "javascript"
      [] t = "C++" -> "c++"
      [] t = "C#" -> "c#"
      [] t = "Go" -> "go"
      [] t = "Node.js" -> "node.js"
      [] OTHER -> t

lower(s) == [k \in 1..Len(s) |-> LowerTok(s[k])]

IsSpace(t) == t \in {" ", "\n"}

RECURSIVE lstrip(_)
lstrip(s) == IF s # <<>> /\ IsSpace(Head(s)) THEN lstrip(Tail(s)) ELSE s

RECURSIVE rstrip(_)
rstrip(s) ==
    IF s # <<>> /\ IsSpace(s[Len(s)]) THEN rstrip(SubSeq(s, 1, Len(s) - 1)) ELSE s

strip(s) == rstrip(lstrip(s))

\* s.split(sep): the pieces between separators, empty pieces included;
\* "".split(",") is [""]
RECURSIVE split(_, _)
split(s, sep) ==
    IF \E k \in 1..Len(s) : s[k] = sep
    THEN LET k == CHOOSE k \in 1..Len(s) : s[k] = sep /\ \A m \in 1..(k - 1) : s[m] # sep
         IN  <<SubSeq(s, 1, k - 1)>> \o split(SubSeq(s, k + 1, Len(s)), sep)
    ELSE <<s>>

(***************************************************************************)
(* Numbers.  A float score is the decimal n / d, d a power of ten, kept    *)
(* in lowest decimal form (8.0 is 8/1, 6.4 is 64/10).                      *)
(***************************************************************************)
RECURSIVE Dec(_, _)
Dec(n, d) == IF d > 1 /\ n % 10 = 0 THEN Dec(n \div 10, d \div 10) ELSE [n |-> n, d |-> d]

Leq(a, b) == a.n * b.d <= b.n * a.d
Less(a, b) == a.n * b.d < b.n * a.d
Geq(a, b) == Leq(b, a)

Num(k) == [n |-> k, d |-> 1]

ClampNone(x) == x

\* min(10.0, max(1.0, score))
Clamp(x) == IF Less(x, Num(1)) THEN Num(1) ELSE IF Less(Num(10), x) THEN Num(10) ELSE x

RoundTenthsDown(m, r) == (10 * r + 90 * m) \div r

\* round(1 + (m / r) * 9, 1) in tenths.  Python rounds the double nearest to
\* the quotient; for r < 20 that is the exact value rounded to the nearest
\* tenth, a tie (r a multiple of 4) going to the even tenth.
RoundTenths(m, r) ==
    LET num == 10 * r + 90 * m
        q == num \div r
        rem2 == 2 * (num % r)
    IN  IF rem2 > r THEN q + 1
        ELSE IF rem2 < r THEN q
        ELSE IF q % 2 = 0 THEN q ELSE q + 1

(***************************************************************************)
(* Input families.                                                         *)
(***************************************************************************)
SeqsUpTo(S, n) == UNION {[1..k -> S] : k \in 0..n}

PoolWords == <<"java", "react", "mysql", "redis", "azure", "git", "linux",
               "numpy", "pandas", "keras", "swift", "kotlin", "rust", "scala",
               "perl", "html">>

\* the first k skills of the pool, as a list
PoolList(k) == [m \in 1..k |-> W(PoolWords[m])]

ExampleCandidate == <<W("Python"), W("Flask"), W("SQL"), W("Docker")>>
ExampleRequired == <<W("Python"), W("Flask"), W("PostgreSQL"), W("Docker"), W("AWS")>>

\* skill names of the freely enumerated lists: different case, a leading
\* blank (what "a, b".split(",") leaves), the empty name
SmallNames == {W("Python"), W("python"), <<" ", "Flask">>, <<>>}

SmallLists == SeqsUpTo(SmallNames, MaxListLen)
PoolLists == {PoolList(k) : k \in 0..MaxSkills}

\* comma-delimited strings
StrTokens == {"Python", "flask", ",", " "}
SmallStrings == SeqsUpTo(StrTokens, MaxStrLen)

Resume(id, name, email, skills) ==
    [id |-> id, candidate_name |-> name, email |-> email, skills |-> skills,
     experience_years |-> StrV(W("3 years"))]

Job(required, description) ==
    [job_title |-> StrV(W("Backend Developer")), required_skills |-> required,
     job_description |-> description, experience_required |-> StrV(W("2-4 years"))]

SomeText == StrV(<<"Looking", " ", "for", " ", "a", " ", "developer">>)

(***************************************************************************)
(* _fallback_matching                                                      *)
(***************************************************************************)
\* set([s.lower() for s in resume_data.get('skills', [])])
candidate_skills(resume_data) ==
    {lower(s) : s \in Range(Get(resume_data.skills, ListV(<<>>)).val)}

\* required_skills: a str is split on commas and each piece stripped,
\* anything else is iterated as it is
required_skills(job_data) ==
    LET required_skills_raw == Get(job_data.required_skills, ListV(<<>>))
    IN  IF required_skills_raw.kind = "str"
        THEN {lower(strip(s)) : s \in Range(split(required_skills_raw.val, ","))}
        ELSE {lower(s) : s \in Range(required_skills_raw.val)}

\* iterating None raises TypeError
fallback_raises(resume_data, job_data) ==
    \/ Get(resume_data.skills, ListV(<<>>)).kind = "null"
    \/ Get(job_data.required_skills, ListV(<<>>)).kind = "null"

fallback_score(matched, required) ==
    IF Cardinality(required) > 0
    THEN Dec(RoundTenths(Cardinality(matched), Cardinality(required)), 10)
    ELSE Num(5)

\* the three f-strings, by their leading word and the two counts they cite
fallback_justification(score, matched, missing, required) ==
    IF Geq(score, Num(7))
    THEN [kind |-> "Strong", a |-> Cardinality(matched), b |-> Cardinality(required)]
    ELSE IF Geq(score, Num(4))
    THEN [kind |-> "Moderate", a |-> Cardinality(matched), b |-> Cardinality(missing)]
    ELSE [kind |-> "Limited", a |-> Cardinality(matched), b |-> Cardinality(required)]

fallback_recommendation_at7(score) ==
    IF Geq(score, Num(7)) THEN W("Strong Hire")
    ELSE IF Geq(score, Num(5)) THEN W("Consider")
    ELSE W("Pass")

fallback_recommendation(score) ==
    IF Geq(score, Num(8)) THEN W("Strong Hire")
    ELSE IF Geq(score, Num(5)) THEN W("Consider")
    ELSE W("Pass")

fallback_missing_all(candidate, required) == required

\* missing = required_skills - candidate_skills
fallback_missing(candidate, required) == required \ candidate

RECURSIVE Perms(_)
Perms(S) ==
    IF S = {} THEN {<<>>}
    ELSE UNION {{<<x>> \o p : p \in Perms(S \ {x})} : x \in S}

RECURSIVE SetToSeq(_)
SetToSeq(S) ==
    IF S = {} THEN <<>>
    ELSE LET x == CHOOSE x \in S : TRUE IN <<x>> \o SetToSeq(S \ {x})

Rotations(s) ==
    {SubSeq(s, k, Len(s)) \o SubSeq(s, 1, k - 1) : k \in 1..Len(s)}

\* list(a_set): the order is the set's iteration order, which the program
\* does not fix.  Every order for a set of at most MaxPermute elements; the
\* rotations of one enumeration above that.
list(S) ==
    IF Cardinality(S) <= MaxPermute THEN Perms(S) ELSE Rotations(SetToSeq(S))

\* the results _fallback_matching can return (when it does not raise)
fallback_matching(resume_data, job_data) ==
    LET candidate == candidate_skills(resume_data)
        required == required_skills(job_data)
        matched == candidate \cap required
        missing == fallback_missing(candidate, required)
        score == fallback_score(matched, required)
    IN  {[match_score |-> score,
          justification |-> fallback_justification(score, matched, missing, required),
          matched_skills |-> ms,
          missing_skills |-> xs,
          overall_assessment |-> [kind |-> "Automated Score", score |-> score],
          recommendation |-> fallback_recommendation(score)]
         : ms \in list(matched), xs \in list(missing)}

NoResult == [none |-> TRUE]
NoValue == [kind |-> "none", val |-> <<>>]

\* if not llm_response: return self._fallback_matching(resume_data, job_data)
Fallback ==
    /\ pc = "scoring"
    /\ IF fallback_raises(resumes[i], job)
       THEN /\ pc' = "raised"
            /\ raised' = "TypeError"
            /\ UNCHANGED <<match_result, via>>
       ELSE /\ \E r \in fallback_matching(resumes[i], job) : match_result' = r
            /\ via' = "fallback"
            /\ pc' = "matched"
            /\ UNCHANGED raised
    /\ UNCHANGED <<resumes, job, i, prompt, llm_response, results, calls, db, files, http, extract>>

(***************************************************************************)
(* The fallback scorer as a function: every input of the families below,   *)
(* scored once.                                                            *)
(***************************************************************************)
FallbackSkills ==
    {MissingV, NullV} \cup {ListV(l) : l \in SmallLists \cup PoolLists \cup {ExampleCandidate}}

FallbackRequired ==
    {MissingV, NullV}
    \cup {ListV(l) : l \in SmallLists \cup PoolLists \cup {ExampleRequired}}
    \cup {StrV(s) : s \in SmallStrings}

InitFallback ==
    /\ pc = "scoring"
    /\ \E s \in FallbackSkills : resumes = <<Resume(1, StrV(W("John Doe")), NullV, s)>>
    /\ \E r \in FallbackRequired : job = Job(r, SomeText)
    /\ i = 1
    /\ prompt = NoValue
    /\ llm_response = NullV
    /\ match_result = NoResult
    /\ results = <<>>
    /\ calls = <<>>
    /\ via = ""
    /\ raised = ""
    /\ AppIdle

NextFallback == Fallback

SpecFallback == InitFallback /\ [][NextFallback]_vars

(***************************************************************************)
(* _build_matching_prompt                                                  *)
(***************************************************************************)
PromptSkillCap == 20
PromptDescCap == 500

\* sep.join(list)
RECURSIVE join(_, _)
join(l, sep) ==
    IF l = <<>> THEN <<>>
    ELSE IF Len(l) = 1 THEN l[1]
    ELSE l[1] \o sep \o join(Tail(l), sep)

\* job_description[:500] on None raises TypeError
prompt_raises(resume_data, job_data) ==
    Get(job_data.job_description, StrV(<<>>)).kind = "null"

\* the fields the f-string renders (the fixed text of the prompt is left out);
\* a slice of a text is taken in tokens
build_matching_prompt(resume_data, job_data) ==
    LET candidate_name == Get(resume_data.candidate_name, StrV(W("Unknown")))
        skills == Get(resume_data.skills, ListV(<<>>))
        candidate_exp == Get(resume_data.experience_years, StrV(W("Not specified")))
        required == Get(job_data.required_skills, ListV(<<>>))
        job_description == Get(job_data.job_description, StrV(<<>>))
    IN  [job_title |-> Get(job_data.job_title, StrV(W("Position"))),
         required_skills |->
             IF required.kind = "list" THEN StrV(join(required.val, <<",", " ">>))
             ELSE required,
         experience_required |->
             Get(job_data.experience_required, StrV(W("Not specified"))),
         job_description |-> StrV(Take(job_description.val, PromptDescCap)),
         candidate_name |-> candidate_name,
         skills |->
             IF skills.kind = "list" /\ skills.val # <<>>
             THEN StrV(join(Take(skills.val, PromptSkillCap), <<",", " ">>))
             ELSE StrV(W("None specified")),
         experience |-> candidate_exp]

(***************************************************************************)
(* _parse_llm_response.  Headings are single tokens (the patterns ignore   *)
(* case, so a heading token stands for every spelling of it).              *)
(***************************************************************************)
IsDigit(t) == t \in {"0", "1", "2", "3", "4", "5", "6", "7", "8", "9"}

DigitVal(t) ==
    CASE t = "0" -> 0 [] t = "1" -> 1 [] t = "2" -> 2 [] t = "3" -> 3 [] t = "4" -> 4
      [] t = "5" -> 5 [] t = "6" -> 6 [] t = "7" -> 7 [] t = "8" -> 8 [] t = "9" -> 9

\* last index of the run of digits (of white space) that starts at q; q - 1
\* when there is none
DigitRunEnd(t, q) ==
    CHOOSE e \in (q - 1)..Len(t) :
        /\ \A k \in q..e : IsDigit(t[k])
        /\ (e = Len(t) \/ ~IsDigit(t[e + 1]))

SpaceRunEnd(t, q) ==
    CHOOSE e \in (q - 1)..Len(t) :
        /\ \A k \in q..e : IsSpace(t[k])
        /\ (e = Len(t) \/ ~IsSpace(t[e + 1]))

RECURSIVE DigitsVal(_)
DigitsVal(ds) ==
    IF ds = <<>> THEN 0 ELSE 10 * DigitsVal(SubSeq(ds, 1, Len(ds) - 1)) + DigitVal(ds[Len(ds)])

RECURSIVE Pow10(_)
Pow10(k) == IF k = 0 THEN 1 ELSE 10 * Pow10(k - 1)

\* index after an optional ":" at q
AfterColon(t, q) == IF q <= Len(t) /\ t[q] = ":" THEN q + 1 ELSE q

\* MATCH SCORE:?\s*(\d+(?:\.\d+)?) matched at p: index of the first digit, 0
\* when the pattern does not match there
ScoreAt(t, p) ==
    IF t[p] # "MATCH SCORE" THEN 0
    ELSE LET q == SpaceRunEnd(t, AfterColon(t, p + 1)) + 1
         IN  IF q <= Len(t) /\ IsDigit(t[q]) THEN q ELSE 0

\* float(score_match.group(1))
ScoreValue(t, q) ==
    LET e == DigitRunEnd(t, q)
        f == IF e + 1 <= Len(t) /\ t[e + 1] = "." THEN DigitRunEnd(t, e + 2) ELSE e + 1
        whole == DigitsVal(SubSeq(t, q, e))
        k == IF f >= e + 2 THEN f - (e + 1) ELSE 0
    IN  IF k = 0 THEN Num(whole)
        ELSE Dec(whole * Pow10(k) + DigitsVal(SubSeq(t, e + 2, f)), Pow10(k))

parse_score(t) ==
    IF \E p \in 1..Len(t) : ScoreAt(t, p) # 0
    THEN LET p == CHOOSE p \in 1..Len(t) :
                      ScoreAt(t, p) # 0 /\ \A m \in 1..(p - 1) : ScoreAt(t, m) = 0
         IN  Clamp(ScoreValue(t, ScoreAt(t, p)))
    ELSE Dec(50, 10)

Has(t, heading) == \E p \in 1..Len(t) : t[p] = heading

First(t, heading) ==
    CHOOSE p \in 1..Len(t) : t[p] = heading /\ \A m \in 1..(p - 1) : t[m] # heading

\* a section pattern without stop headings: the group runs to the end of text
SectionEndOfText(t, s, stops) ==
    IF t # <<>> /\ t[Len(t)] = "\n" /\ s <= Len(t) THEN Len(t) ELSE Len(t) + 1

\* where HEADING:?(.*?)(?:STOP:|...|$) ends the group that starts at s: the
\* first stop heading followed by ":", else the end of the text ($ also
\* matches before a final newline)
SectionEnd(t, s, stops) ==
    CHOOSE e \in s..(Len(t) + 1) :
        LET StopAt(x) ==
                \/ x = Len(t) + 1
                \/ x = Len(t) /\ t[x] = "\n"
                \/ t[x] \in stops /\ x + 1 <= Len(t) /\ t[x + 1] = ":"
        IN  StopAt(e) /\ \A m \in s..(e - 1) : ~StopAt(m)

\* group(1) of the first match of the section pattern (the heading is in t)
section(t, heading, stops) ==
    LET s == AfterColon(t, First(t, heading) + 1)
    IN  SubSeq(t, s, SectionEnd(t, s, stops) - 1)

\* \s*(.+?) tried from index a: the index where the group starts, 0 when it
\* cannot.  \s* takes all the white space it can and gives back only as far
\* as a blank that the group can start with.
CaptureStart(x, a) ==
    LET r == SpaceRunEnd(x, a)
        Ok(c) == c <= Len(x) /\ x[c] # "\n"
    IN  IF \E c \in a..(r + 1) : Ok(c)
        THEN CHOOSE c \in a..(r + 1) : Ok(c) /\ \A m \in (c + 1)..(r + 1) : ~Ok(m)
        ELSE 0

\* (.+?)(?:\n|$) from index c: index of the newline that ends it, or Len + 1
LineEnd(x, c) ==
    CHOOSE e \in (c + 1)..(Len(x) + 1) :
        /\ (e = Len(x) + 1 \/ x[e] = "\n")
        /\ \A m \in (c + 1)..(e - 1) : x[m] # "\n"

IsBullet(t) == t \in {"-", "*bullet*"}

BulletAt(x, b) == IF IsBullet(x[b]) THEN CaptureStart(x, b + 1) ELSE 0

\* re.findall(r'[-*bullet*]\s*(.+?)(?:\n|$)', x), scanning from index `from`
RECURSIVE bullet_items(_, _)
bullet_items(x, from) ==
    IF \E b \in from..Len(x) : BulletAt(x, b) # 0
    THEN LET b == CHOOSE b \in from..Len(x) :
                      BulletAt(x, b) # 0 /\ \A m \in from..(b - 1) : BulletAt(x, m) = 0
             c == BulletAt(x, b)
             e == LineEnd(x, c)
         IN  <<SubSeq(x, c, e - 1)>> \o bullet_items(x, e + 1)
    ELSE <<>>

RECURSIVE NonEmptyStripped(_)
NonEmptyStripped(items) ==
    IF items = <<>> THEN <<>>
    ELSE IF strip(Head(items)) # <<>>
    THEN <<strip(Head(items))>> \o NonEmptyStripped(Tail(items))
    ELSE NonEmptyStripped(Tail(items))

SkillCap == 10

\* bullet lines, else the comma-separated pieces; stripped, empty ones
\* dropped, the first ten kept
skill_items(text) ==
    LET found == bullet_items(text, 1)
        items == IF found = <<>> THEN NonEmptyStripped(split(text, ",")) ELSE found
    IN  Take(NonEmptyStripped(items), SkillCap)

parse_matched(t) ==
    IF Has(t, "MATCHED SKILLS")
    THEN skill_items(section(t, "MATCHED SKILLS", {"MISSING SKILLS", "JUSTIFICATION"}))
    ELSE <<>>

parse_missing(t) ==
    IF Has(t, "MISSING SKILLS")
    THEN skill_items(section(t, "MISSING SKILLS", {"JUSTIFICATION", "RECOMMENDATION"}))
    ELSE <<>>

parse_justification(t) ==
    IF Has(t, "JUSTIFICATION")
    THEN strip(section(t, "JUSTIFICATION", {"RECOMMENDATION"}))
    ELSE <<>>

\* RECOMMENDATION:?\s*(.+?)(?:\n|$) matched at p: index where the group
\* starts, 0 when the pattern does not match there.  When nothing but white
\* space follows the ":", the ":" itself becomes the group.
RecommendationAt(t, p) ==
    IF t[p] # "RECOMMENDATION" THEN 0
    ELSE LET c == CaptureStart(t, AfterColon(t, p + 1))
         IN  IF c # 0 THEN c
             ELSE IF AfterColon(t, p + 1) = p + 2 THEN p + 1
             ELSE 0

\* a parser whose recommendation default is "Pass"
parse_recommendation_default_pass(t) ==
    IF \E p \in 1..Len(t) : t[p] = "RECOMMENDATION"
    THEN LET c == CaptureStart(t, AfterColon(t, First(t, "RECOMMENDATION") + 1))
         IN  IF c = 0 THEN <<":">> ELSE strip(SubSeq(t, c, LineEnd(t, c) - 1))
    ELSE W("Pass")

parse_recommendation(t) ==
    IF \E p \in 1..Len(t) : RecommendationAt(t, p) # 0
    THEN LET p == CHOOSE p \in 1..Len(t) :
                      RecommendationAt(t, p) # 0
                      /\ \A m \in 1..(p - 1) : RecommendationAt(t, m) = 0
             c == RecommendationAt(t, p)
         IN  strip(SubSeq(t, c, LineEnd(t, c) - 1))
    ELSE W("Consider")

parse_llm_response(t, resume_data, job_data) ==
    LET score == parse_score(t)
        recommendation == parse_recommendation(t)
    IN  [match_score |-> score,
         justification |-> [kind |-> "text", a |-> parse_justification(t), b |-> 0],
         matched_skills |-> parse_matched(t),
         missing_skills |-> parse_missing(t),
         overall_assessment |->
             [kind |-> "Match Score", score |-> score, recommendation |-> recommendation],
         recommendation |-> recommendation]

(***************************************************************************)
(* generate_llm_response and match_resume_to_job                           *)
(***************************************************************************)
\* what the backend does with one prompt: it raises, it answers None, or it
\* answers a text (which may be empty)
Outcomes(replies) ==
    {[kind |-> "error", val |-> <<>>], [kind |-> "null", val |-> <<>>]}
    \cup {[kind |-> "text", val |-> r] : r \in replies}

\* generate_llm_response: the text, None when the backend raised
generate_llm_response(o) == IF o.kind = "text" THEN StrV(o.val) ELSE NullV

\* Python truth of the response: None and "" are false
Truthy(v) == v.kind = "str" /\ v.val # <<>>

\* prompt = self._build_matching_prompt(resume_data, job_data)
BuildPrompt ==
    /\ pc = "prompt"
    /\ IF prompt_raises(resumes[i], job)
       THEN /\ pc' = "raised"
            /\ raised' = "TypeError"
            /\ UNCHANGED prompt
       ELSE /\ prompt' = build_matching_prompt(resumes[i], job)
            /\ pc' = "llm"
            /\ UNCHANGED raised
    /\ UNCHANGED <<resumes, job, i, llm_response, match_result, results, calls, via, db, files, http, extract>>

\* llm_response = self.generate_llm_response(prompt); if not llm_response: ...
GenerateLLM(o) ==
    /\ pc = "llm"
    /\ llm_response' = generate_llm_response(o)
    /\ calls' = Append(calls, [resume |-> i, outcome |-> o.kind])
    /\ pc' = IF Truthy(llm_response') THEN "parsing" ELSE "scoring"
    /\ UNCHANGED <<resumes, job, i, prompt, match_result, results, via, raised, db, files, http, extract>>

\* match_result = self._parse_llm_response(llm_response, resume_data, job_data)
Parse ==
    /\ pc = "parsing"
    /\ match_result' = parse_llm_response(llm_response.val, resumes[i], job)
    /\ via' = "parse"
    /\ pc' = "matched"
    /\ UNCHANGED <<resumes, job, i, prompt, llm_response, results, calls, raised, db, files, http, extract>>

(***************************************************************************)
(* Replies of the language model.                                          *)
(***************************************************************************)
FreeTokens == {"MATCH SCORE", "MATCHED SKILLS", ":", "\n", "-", ",", "7", "Python"}

FreeReplies == SeqsUpTo(FreeTokens, MaxReplyLen)

\* "MATCH SCORE: <digits>"
ScoreReply(digits) == <<"MATCH SCORE", ":", " ">> \o digits

ScoreReplies ==
    {ScoreReply(d) : d \in {<<"0">>, <<"0", ".", "5">>, <<"3", ".", "0">>, <<"6", ".", "4">>,
                            <<"7", ".", "2", "5">>, <<"8">>, <<"1", "0">>, <<"1", "2", ".", "5">>}}

RECURSIVE BulletLines(_)
BulletLines(l) ==
    IF l = <<>> THEN <<>> ELSE <<"-", " ">> \o Head(l) \o <<"\n">> \o BulletLines(Tail(l))

\* a matched section of k bullet lines, a missing section of k items
\* separated by commas
SkillsReply(k) ==
    <<"MATCHED SKILLS", ":", "\n">> \o BulletLines(PoolList(k))
    \o <<"MISSING SKILLS", ":", " ">> \o join(PoolList(k), <<",", " ">>)

SkillsReplies == {SkillsReply(k) : k \in 0..MaxItems}

Replies == FreeReplies \cup ScoreReplies \cup SkillsReplies

(***************************************************************************)
(* One call of match_resume_to_job.                                        *)
(***************************************************************************)
MatchSkills == {NullV, ListV(ExampleCandidate), ListV(PoolList(MaxSkills))}

MatchJobs ==
    {Job(ListV(ExampleRequired), SomeText), Job(ListV(PoolList(MaxSkills)), MissingV),
     Job(NullV, SomeText), Job(ListV(ExampleRequired), NullV)}

Init ==
    /\ pc = "prompt"
    /\ \E s \in MatchSkills : resumes = <<Resume(1, StrV(W("John Doe")), NullV, s)>>
    /\ job \in MatchJobs
    /\ i = 1
    /\ prompt = NoValue
    /\ llm_response = NullV
    /\ match_result = NoResult
    /\ results = <<>>
    /\ calls = <<>>
    /\ via = ""
    /\ raised = ""
    /\ AppIdle

Next ==
    \/ BuildPrompt
    \/ \E o \in Outcomes(Replies) : GenerateLLM(o)
    \/ Fallback
    \/ Parse

Spec == Init /\ [][Next]_vars

(***************************************************************************)
(* batch_match_resumes                                                     *)
(***************************************************************************)
\* match_result['resume_id'] = resume.get('id'), ... ; results.append(...)
annotate(result, resume) ==
    [match_score |-> result.match_score,
     justification |-> result.justification,
     matched_skills |-> result.matched_skills,
     missing_skills |-> result.missing_skills,
     overall_assessment |-> result.overall_assessment,
     recommendation |-> result.recommendation,
     resume_id |-> resume.id,
     candidate_name |-> Get(resume.candidate_name, StrV(W("Unknown"))),
     email |-> Get(resume.email, NullV)]

InsertDescBeforeEqual(sorted, x) ==
    LET k == Cardinality({m \in 1..Len(sorted) : Less(x.match_score, sorted[m].match_score)})
    IN  SubSeq(sorted, 1, k) \o <<x>> \o SubSeq(sorted, k + 1, Len(sorted))

\* where x goes in a list already in descending order: after every entry
\* whose score is not smaller (list.sort is stable, also with reverse=True)
InsertDesc(sorted, x) ==
    LET k == Cardinality({m \in 1..Len(sorted) : Geq(sorted[m].match_score, x.match_score)})
    IN  SubSeq(sorted, 1, k) \o <<x>> \o SubSeq(sorted, k + 1, Len(sorted))

\* results.sort(key=lambda x: x['match_score'], reverse=True)
RECURSIVE sort_results(_)
sort_results(l) ==
    IF l = <<>> THEN <<>>
    ELSE InsertDesc(sort_results(SubSeq(l, 1, Len(l) - 1)), l[Len(l)])

\* the end of one pass of the loop body: the result is annotated and
\* appended, and the loop goes to the next resume
Collect ==
    /\ pc = "matched"
    /\ results' = Append(results, annotate(match_result, resumes[i]))
    /\ i' = i + 1
    /\ pc' = IF i + 1 <= Len(resumes) THEN "prompt" ELSE "sort"
    /\ UNCHANGED <<resumes, job, prompt, llm_response, match_result, calls, via, raised, db, files, http, extract>>

\* after the loop: sort and return
SortReturn ==
    /\ pc = "sort"
    /\ results' = sort_results(results)
    /\ pc' = "returned"
    /\ UNCHANGED <<resumes, job, i, prompt, llm_response, match_result, calls, via, raised, db, files, http, extract>>

\* the candidates of a batch; a stored resume has its own id, here its
\* position in the batch
BatchProfiles ==
    {[candidate_name |-> StrV(W("John Doe")), email |-> StrV(W("john@example.com")),
      skills |-> ListV(ExampleCandidate)],
     [candidate_name |-> MissingV, email |-> MissingV, skills |-> ListV(<<>>)],
     [candidate_name |-> StrV(W("Ann Lee")), email |-> NullV, skills |-> NullV]}

Batches ==
    {[k \in 1..Len(ps) |->
        Resume(k, ps[k].candidate_name, ps[k].email, ps[k].skills)]
     : ps \in SeqsUpTo(BatchProfiles, MaxBatch)}

BatchJobs ==
    {Job(ListV(<<W("Python")>>), SomeText), Job(ListV(<<W("Python")>>), NullV)}

BatchReplies ==
    {ScoreReply(<<"6", ".", "4">>), ScoreReply(<<"8", ".", "0">>),
     ScoreReply(<<"3", ".", "0">>)}

InitBatch ==
    /\ resumes \in Batches
    /\ job \in BatchJobs
    /\ pc = IF resumes = <<>> THEN "sort" ELSE "prompt"
    /\ i = 1
    /\ prompt = NoValue
    /\ llm_response = NullV
    /\ match_result = NoResult
    /\ results = <<>>
    /\ calls = <<>>
    /\ via = ""
    /\ raised = ""
    /\ AppIdle

NextBatch ==
    \/ BuildPrompt
    \/ \E o \in Outcomes(BatchReplies) : GenerateLLM(o)
    \/ Fallback
    \/ Parse
    \/ Collect
    \/ SortReturn

SpecBatch == InitBatch /\ [][NextBatch]_vars

(***************************************************************************)
(* _parse_llm_response on replies built from the five sections of the      *)
(* prompt's output template (llm_matcher.py lines 107-122).                *)
(***************************************************************************)
Headings ==
    <<"MATCH SCORE", "MATCHED SKILLS", "MISSING SKILLS", "JUSTIFICATION", "RECOMMENDATION">>

\* the score a reply writes: its digits and the number they denote
ReplyScores ==
    {[digits |-> <<"8">>, value |-> Num(8)],
     [digits |-> <<"6", ".", "4">>, value |-> Dec(64, 10)],
     [digits |-> <<"1", "2", ".", "5">>, value |-> Dec(125, 10)]}

\* the skills a section lists: none, one, two (one hyphenated), MaxItems
ReplySkillLists ==
    {<<>>, <<W("Python")>>, <<W("Python"), <<"scikit", "-", "learn">>>>, PoolList(MaxItems)}

ReplyJustifications ==
    {<<"Strong", " ", "backend", " ", "profile", ".">>,
     <<"Knows", " ", "Python", ",", " ", "Flask", " ", "-", " ", "lacks", " ", "AWS", ".">>}

Labels == {W("Strong Hire"), W("Consider"), W("Maybe"), W("Pass")}

\* what a model writes after RECOMMENDATION: a label, or words of its own
ReplyRecommendations == Labels \cup {<<"Hire", " ", "after", " ", "interview">>}

ReplyContents ==
    [score : ReplyScores, matched : ReplySkillLists, missing : ReplySkillLists,
     justification : ReplyJustifications, recommendation : ReplyRecommendations]

\* one section as the template lays it out
Block(h, c) ==
    CASE h = "MATCH SCORE" -> <<h, ":", " ">> \o c.score.digits \o <<"\n", "\n">>
      [] h = "MATCHED SKILLS" -> <<h, ":", "\n">> \o BulletLines(c.matched) \o <<"\n">>
      [] h = "MISSING SKILLS" -> <<h, ":", "\n">> \o BulletLines(c.missing) \o <<"\n">>
      [] h = "JUSTIFICATION" -> <<h, ":", "\n">> \o c.justification \o <<"\n", "\n">>
      [] h = "RECOMMENDATION" -> <<h, ":", "\n">> \o c.recommendation \o <<"\n">>

RECURSIVE Assemble(_, _)
Assemble(c, order) ==
    IF order = <<>> THEN <<>> ELSE Block(Head(order), c) \o Assemble(c, Tail(order))

\* the well-formed reply: the five sections in the template's order
TemplateReply(c) == Assemble(c, Headings)

TemplateReplies == {TemplateReply(c) : c \in ReplyContents}

\* one content for the replies that omit or reorder sections
SampleContent ==
    [score |-> [digits |-> <<"8">>, value |-> Num(8)],
     matched |-> <<W("Python"), <<"scikit", "-", "learn">>>>,
     missing |-> <<W("AWS")>>,
     justification |-> <<"Strong", " ", "backend", " ", "profile", ".">>,
     recommendation |-> W("Strong Hire")]

Preamble == <<"Here", " ", "is", " ", "my", " ", "assessment", ".", "\n">>

\* the sections of S in the template's order, after a line of prose
PartialReply(S) ==
    Preamble \o Assemble(SampleContent, SelectSeq(Headings, LAMBDA h : h \in S))

PartialReplies == {PartialReply(S) : S \in SUBSET Range(Headings)}

\* the five sections in every order
SectionOrders == Perms(Range(Headings))

PermutedReplies == {Assemble(SampleContent, o) : o \in SectionOrders}

\* a skills section written on one line, or with some bullet lines
SkillBodies ==
    {<<"Python", ",", " ", "scikit", "-", "learn", ",", " ", "Docker">>,
     <<"Python", ",", " ", "Flask", ",", " ", "Docker">>,
     <<"Python">>,
     <<"\n", "-", " ", "Python", "\n", "-", " ", "scikit", "-", "learn">>,
     <<"\n", "-", " ", "Python", "\n", "Flask", ",", " ", "Docker">>,
     <<"\n", "Python", ",", " ", "Flask", "\n", "Docker", ",", " ", "AWS">>}

SkillsSectionReply(h, body) ==
    <<"MATCH SCORE", ":", " ", "8", "\n", h, ":", " ">> \o body \o <<"\n">>

SkillsSectionReplies ==
    {SkillsSectionReply(h, b) : h \in {"MATCHED SKILLS", "MISSING SKILLS"}, b \in SkillBodies}

ParseReplies ==
    TemplateReplies \cup PartialReplies \cup PermutedReplies \cup SkillsSectionReplies

InitParse ==
    /\ pc = "parsing"
    /\ resumes = <<Resume(1, StrV(W("John Doe")), NullV, ListV(ExampleCandidate))>>
    /\ job = Job(ListV(ExampleRequired), SomeText)
    /\ i = 1
    /\ prompt = build_matching_prompt(resumes[1], job)
    /\ \E r \in ParseReplies : llm_response = StrV(r)
    /\ match_result = NoResult
    /\ results = <<>>
    /\ calls = <<[resume |-> 1, outcome |-> "text"]>>
    /\ via = ""
    /\ raised = ""
    /\ AppIdle

NextParse == Parse

SpecParse == InitParse /\ [][NextParse]_vars

(***************************************************************************)
(* json.dumps and json.loads on the values the storage layer serialises:   *)
(* None, a list of str, a list of {'description', 'full_text'} dicts.      *)
(* JSON text is a sequence of tokens like every other text.                *)
(***************************************************************************)
\* a non-empty list of dicts (an empty list is ListV(<<>>))
DictsV(l) == IF l = <<>> THEN ListV(<<>>) ELSE [kind |-> "dicts", val |-> l]

EscapeTok(t) == CASE t = "\"" -> "\\\"" [] t = "\n" -> "\\n" [] OTHER -> t

UnescapeTok(t) == CASE t = "\\\"" -> "\"" [] t = "\\n" -> "\n" [] OTHER -> t

dumps_str(x) == <<"\"">> \o [k \in 1..Len(x) |-> EscapeTok(x[k])] \o <<"\"">>

dumps_dict(d) ==
    <<"{">> \o dumps_str(W("description")) \o <<":", " ">> \o dumps_str(d.description)
    \o <<",", " ">> \o dumps_str(W("full_text")) \o <<":", " ">> \o dumps_str(d.full_text)
    \o <<"}">>

RECURSIVE dumps_items(_, _)
dumps_items(l, dicts) ==
    IF l = <<>> THEN <<>>
    ELSE (IF dicts THEN dumps_dict(Head(l)) ELSE dumps_str(Head(l)))
         \o (IF Len(l) > 1 THEN <<",", " ">> ELSE <<>>)
         \o dumps_items(Tail(l), dicts)

\* json.dumps(v)
dumps(v) ==
    CASE v.kind = "null" -> <<"null">>
      [] v.kind = "str" -> dumps_str(v.val)
      [] v.kind = "list" -> <<"[">> \o dumps_items(v.val, FALSE) \o <<"]">>
      [] v.kind = "dicts" -> <<"[">> \o dumps_items(v.val, TRUE) \o <<"]">>

\* index of the quote that closes the string opened at p
StringEnd(s, p) ==
    CHOOSE q \in (p + 1)..Len(s) : s[q] = "\"" /\ \A m \in (p + 1)..(q - 1) : s[m] # "\""

loads_str(s, p) ==
    LET q == StringEnd(s, p) IN [k \in 1..(q - p - 1) |-> UnescapeTok(s[p + k])]

\* the dict that opens at p, and the index after its "}"
loads_dict(s, p) ==
    LET q1 == StringEnd(s, p + 6)
        q2 == StringEnd(s, q1 + 8)
    IN  [val |-> [description |-> loads_str(s, p + 6), full_text |-> loads_str(s, q1 + 8)],
         next |-> q2 + 2]

\* the items of a list from index p on (p is at an item)
RECURSIVE loads_items(_, _)
loads_items(s, p) ==
    LET item == IF s[p] = "{" THEN loads_dict(s, p)
                ELSE [val |-> loads_str(s, p), next |-> StringEnd(s, p) + 1]
    IN  <<item.val>> \o (IF s[item.next] = "," THEN loads_items(s, item.next + 2) ELSE <<>>)

\* json.loads(s) of a text json.dumps wrote
loads(s) ==
    CASE s = <<"null">> -> NullV
      [] s[1] = "\"" -> StrV(loads_str(s, 1))
      [] s[1] = "[" /\ s[2] = "]" -> ListV(<<>>)
      [] s[1] = "[" /\ s[2] = "{" -> DictsV(loads_items(s, 2))
      [] OTHER -> ListV(loads_items(s, 2))

\* json.loads(x) if x else []
loads_or_empty(x) == IF x.kind = "str" /\ x.val # <<>> THEN loads(x.val) ELSE ListV(<<>>)

(***************************************************************************)
(* upload_resume (app.py) with parse_resume and the text extraction        *)
(* strategies (resume_parser.py).  A file name is a sequence of tokens: a  *)
(* word, a "." or a word of non-ASCII letters (the token "*cjk*").         *)
(***************************************************************************)
MaxNameLen == 3     \* longest uploaded file name (tokens)
MaxPages == 2       \* most pages of an uploaded document

ALLOWED_EXTENSIONS == {"pdf", "docx"}

\* filename.rsplit('.', 1)[1]: what follows the last "."
LastExtension(filename) ==
    LET k == CHOOSE k \in 1..Len(filename) :
                 filename[k] = "." /\ \A m \in (k + 1)..Len(filename) : filename[m] # "."
    IN  SubSeq(filename, k + 1, Len(filename))

\* a check that only asks for a "." in the name
allowed_file_any_dot(filename) == "." \in Range(filename)

\* an extension of two words is one longer word, never "pdf" or "docx"
allowed_file(filename) ==
    /\ "." \in Range(filename)
    /\ Len(LastExtension(filename)) = 1
    /\ LowerTok(LastExtension(filename)[1]) \in ALLOWED_EXTENSIONS

RECURSIVE StripDots(_)
StripDots(s) ==
    IF s # <<>> /\ Head(s) = "." THEN StripDots(Tail(s))
    ELSE IF s # <<>> /\ s[Len(s)] = "." THEN StripDots(SubSeq(s, 1, Len(s) - 1))
    ELSE s

\* werkzeug's secure_filename: non-ASCII characters are dropped, then
\* leading and trailing dots are stripped
secure_filename(filename) == StripDots(SelectSeq(filename, LAMBDA t : t # "*cjk*"))

\* os.path.join(UPLOAD_FOLDER, f"{timestamp}_{filename}")
upload_path(filename) == <<"uploads/", "20260101_120000_">> \o secure_filename(filename)

\* file_path.lower().endswith('.' + ext)
EndsWithExt(path, ext) ==
    Len(path) >= 2 /\ path[Len(path) - 1] = "." /\ LowerTok(path[Len(path)]) = ext

\* what a library gives for one page: a text, an empty text, None, a fault
PageRaise == [kind |-> "raise", val |-> <<>>]

PageResults == {StrV(W("Jane Roe")), StrV(<<>>), NullV, PageRaise}

\* one reading of the document: its pages in order (a fault on opening the
\* file is a fault at the first page)
Readings == UNION {[1..k -> PageResults] : k \in 0..MaxPages}

RaisesAt(pages, bad) ==
    IF \E k \in 1..Len(pages) : pages[k] \in bad
    THEN CHOOSE k \in 1..Len(pages) :
             pages[k] \in bad /\ \A m \in 1..(k - 1) : pages[m] \notin bad
    ELSE 0

\* text += page_text + "\n" over the pages before index stop (all when 0),
\* pages without text skipped when skip_empty
RECURSIVE PagesText(_, _, _)
PagesText(pages, stop, skip_empty) ==
    IF pages = <<>> \/ stop = 1 THEN <<>>
    ELSE (IF skip_empty /\ Head(pages).val = <<>> THEN <<>> ELSE Head(pages).val \o <<"\n">>)
         \o PagesText(Tail(pages), IF stop = 0 THEN 0 ELSE stop - 1, skip_empty)

\* the fields parse_resume extracts from the text (the extractors are
\* regular-expression heuristics over the text; a text without words gives
\* the empty profile)
BlankProfile ==
    [candidate_name |-> StrV(W("Unknown")), email |-> NullV, phone |-> NullV,
     linkedin |-> NullV, github |-> NullV,
     skills |-> ListV(<<>>), experience |-> ListV(<<>>), education |-> ListV(<<>>),
     experience_years |-> StrV(W("Not specified"))]

FullProfile ==
    [candidate_name |-> StrV(W("Jane Roe")), email |-> StrV(W("jane@roe.io")), phone |-> NullV,
     linkedin |-> StrV(W("https://linkedin.com/in/janeroe")), github |-> NullV,
     skills |-> ListV(<<W("Flask"), W("Python")>>),
     experience |->
         DictsV(<<[description |-> W("built payment services at acme"),
                   full_text |-> W("built payment services at acme")]>>),
     education |-> ListV(<<>>),
     experience_years |-> StrV(W("5 years"))]

ParsedProfiles == {BlankProfile, FullProfile}

FieldsOf(text) ==
    IF \A k \in 1..Len(text) : IsSpace(text[k]) THEN {BlankProfile} ELSE ParsedProfiles

\* a handler that answers 201 whatever happened
RespondCreated(status, error) ==
    /\ http' = [http EXCEPT !.status = 201, !.error = ""]
    /\ pc' = "done"

\* the handler answers: status and error text, position "done"
Respond(status, error) ==
    /\ http' = [http EXCEPT !.status = status, !.error = error]
    /\ pc' = "done"

matcher_vars ==
    <<resumes, job, i, prompt, llm_response, match_result, results, calls, via, raised>>

\* upload_resume up to the try block: the three early returns
UploadRequest(f) ==
    /\ pc = "idle"
    /\ LET req == [op |-> "upload_resume", arg |-> f, status |-> 0, error |-> "",
                   body |-> <<>>, count |-> http.count + 1]
       IN  IF f.kind = "missing"
           THEN /\ http' = [req EXCEPT !.status = 400, !.error = "No file provided"]
                /\ pc' = "done"
           ELSE IF f.val = <<>>
           THEN /\ http' = [req EXCEPT !.status = 400, !.error = "No file selected"]
                /\ pc' = "done"
           ELSE IF ~allowed_file(f.val)
           THEN /\ http' = [req EXCEPT !.status = 400, !.error = "Invalid file type"]
                /\ pc' = "done"
           ELSE /\ http' = req
                /\ pc' = "save"
    /\ extract' = NoExtract
    /\ UNCHANGED <<db, files>>
    /\ UNCHANGED matcher_vars

\* file.save(filepath)
SaveFile ==
    /\ pc = "save"
    /\ files' = files \cup {upload_path(http.arg.val)}
    /\ extract' = [extract EXCEPT !.path = upload_path(http.arg.val)]
    /\ pc' = "parse"
    /\ UNCHANGED <<db, http>>
    /\ UNCHANGED matcher_vars

\* parse_resume: the strategy is chosen by the path's ending
ParseResume ==
    /\ pc = "parse"
    /\ IF EndsWithExt(extract.path, "pdf") THEN pc' = "pdfplumber" /\ UNCHANGED http
       ELSE IF EndsWithExt(extract.path, "docx") THEN pc' = "docx" /\ UNCHANGED http
       ELSE Respond(500, "Failed to parse resume: Unsupported file format")
    /\ UNCHANGED <<db, files, extract>>
    /\ UNCHANGED matcher_vars

\* a first strategy that also falls back when it read no text
PdfplumberEmptyIsFault(pages) ==
    /\ pc = "pdfplumber"
    /\ LET stop == RaisesAt(pages, {PageRaise})
           text == PagesText(pages, stop, TRUE)
       IN  /\ extract' =
                [extract EXCEPT
                    !.text = text,
                    !.log = Append(@, [strategy |-> "pdfplumber",
                                       result |-> IF stop = 0 THEN "ok" ELSE "raised"])]
           /\ pc' = IF stop = 0 /\ text # <<>> THEN "fields" ELSE "pypdf2"
    /\ UNCHANGED <<db, files, http>>
    /\ UNCHANGED matcher_vars

\* extract_text_from_pdf, first strategy (pdfplumber): pages without text
\* are skipped; a fault leaves the text read so far and goes to PyPDF2
Pdfplumber(pages) ==
    /\ pc = "pdfplumber"
    /\ LET stop == RaisesAt(pages, {PageRaise})
       IN  /\ extract' =
                [extract EXCEPT
                    !.text = PagesText(pages, stop, TRUE),
                    !.log = Append(@, [strategy |-> "pdfplumber",
                                       result |-> IF stop = 0 THEN "ok" ELSE "raised"])]
           /\ pc' = IF stop = 0 THEN "fields" ELSE "pypdf2"
    /\ UNCHANGED <<db, files, http>>
    /\ UNCHANGED matcher_vars

\* extract_text_from_pdf, second strategy (PyPDF2): a page without text
\* makes "None + '\n'" raise; a fault ends parse_resume and the upload
PyPDF2(pages) ==
    /\ pc = "pypdf2"
    /\ LET stop == RaisesAt(pages, {PageRaise, NullV})
       IN  /\ extract' =
                [extract EXCEPT
                    !.text = @ \o PagesText(pages, stop, FALSE),
                    !.log = Append(@, [strategy |-> "PyPDF2",
                                       result |-> IF stop = 0 THEN "ok" ELSE "raised"])]
           /\ IF stop = 0 THEN pc' = "fields" /\ UNCHANGED http
              ELSE Respond(500, "Failed to parse resume: Failed to extract text from PDF")
    /\ UNCHANGED <<db, files>>
    /\ UNCHANGED matcher_vars

\* extract_text_from_docx: every paragraph's text, or a fault
Docx(pages) ==
    /\ pc = "docx"
    /\ LET stop == RaisesAt(pages, {PageRaise, NullV})
       IN  /\ extract' =
                [extract EXCEPT
                    !.text = PagesText(pages, stop, FALSE),
                    !.log = Append(@, [strategy |-> "docx",
                                       result |-> IF stop = 0 THEN "ok" ELSE "raised"])]
           /\ IF stop = 0 THEN pc' = "fields" /\ UNCHANGED http
              ELSE Respond(500, "Failed to parse resume: Failed to extract text from DOCX")
    /\ UNCHANGED <<db, files>>
    /\ UNCHANGED matcher_vars

\* parse_resume: the structured fields of the extracted text
ExtractFields(p) ==
    /\ pc = "fields"
    /\ p \in FieldsOf(extract.text)
    /\ extract' = [extract EXCEPT !.parsed = p]
    /\ pc' = "store"
    /\ UNCHANGED <<db, files, http>>
    /\ UNCHANGED matcher_vars

\* the row save_resume inserts: the columns of the resumes table
resume_row(id, parsed, path, text) ==
    [id |-> id, candidate_name |-> parsed.candidate_name, email |-> parsed.email,
     phone |-> parsed.phone, file_path |-> StrV(path), raw_text |-> StrV(text),
     skills |-> StrV(dumps(parsed.skills)),
     experience |-> StrV(dumps(parsed.experience)),
     education |-> StrV(dumps(parsed.education))]

save_resume(d, parsed, path, text) ==
    [d EXCEPT !.resumes = Append(@, resume_row(d.next_resume, parsed, path, text)),
              !.next_resume = @ + 1]

\* resume_id = db.save_resume(parsed_data, ...); return 201
SaveResume ==
    /\ pc = "store"
    /\ db' = save_resume(db, extract.parsed, extract.path, extract.text)
    /\ http' = [http EXCEPT !.status = 201, !.body = <<db.next_resume>>]
    /\ pc' = "done"
    /\ UNCHANGED <<files, extract>>
    /\ UNCHANGED matcher_vars

\* the file names a client may send
NameTokens == {"cv", ".", "pdf", "PDF", "docx", "txt", "*cjk*"}

Filenames == {MissingV} \cup {StrV(n) : n \in SeqsUpTo(NameTokens, MaxNameLen)}

\* storage before the upload: empty, or holding one resume already
StoredBefore ==
    {EmptyDb,
     save_resume(EmptyDb, FullProfile, upload_path(<<"old", ".", "pdf">>), W("Jane Roe"))}

MatcherIdle ==
    /\ resumes = <<>>
    /\ job = NoValue
    /\ i = 1
    /\ prompt = NoValue
    /\ llm_response = NullV
    /\ match_result = NoResult
    /\ results = <<>>
    /\ calls = <<>>
    /\ via = ""
    /\ raised = ""

InitUpload ==
    /\ pc = "idle"
    /\ MatcherIdle
    /\ db \in StoredBefore
    /\ files = {}
    /\ http = NoRequest
    /\ extract = NoExtract

NextUpload ==
    \/ \E f \in Filenames : UploadRequest(f)
    \/ SaveFile
    \/ ParseResume
    \/ \E r \in Readings : Pdfplumber(r)
    \/ \E r \in Readings : PyPDF2(r)
    \/ \E r \in Readings : Docx(r)
    \/ \E p \in ParsedProfiles : ExtractFields(p)
    \/ SaveResume

SpecUpload == InitUpload /\ [][NextUpload]_vars

(***************************************************************************)
(* The storage layer (database.py) and the request handlers for jobs,      *)
(* matching, listing and deletion (app.py).  A request is served to its    *)
(* response before the next one starts.                                    *)
(***************************************************************************)
MaxRequests == 3    \* most requests served in one behaviour

\* the request being entered: no status yet
Req(op, arg) ==
    [op |-> op, arg |-> arg, status |-> 0, error |-> "", body |-> <<>>,
     count |-> http.count + 1]

Answer(op, arg, status, error, body) ==
    [Req(op, arg) EXCEPT !.status = status, !.error = error, !.body = body]

\* SELECT ... WHERE id = ?
RowsById(table, id) == SelectSeq(table, LAMBDA r : r.id = id)

Reverse(l) == [k \in 1..Len(l) |-> l[Len(l) + 1 - k]]

\* get_resume: the three JSON columns deserialised; None when no such row
get_resume(d, id) ==
    IF RowsById(d.resumes, id) = <<>> THEN NullV
    ELSE LET row == RowsById(d.resumes, id)[1]
         IN  [row EXCEPT !.skills = loads_or_empty(@),
                         !.experience = loads_or_empty(@),
                         !.education = loads_or_empty(@)]

\* get_all_resumes: newest first (uploads have distinct times); only the
\* skills column is deserialised
get_all_resumes(d) ==
    LET rows == Reverse(d.resumes)
    IN  [k \in 1..Len(rows) |-> [rows[k] EXCEPT !.skills = loads_or_empty(@)]]

\* the row save_job_description inserts
job_row(id, job_data) ==
    [id |-> id, job_title |-> job_data.job_title,
     required_skills |-> StrV(dumps(job_data.required_skills)),
     experience_required |-> job_data.experience_required,
     job_description |-> job_data.job_description]

save_job_description(d, job_data) ==
    [d EXCEPT !.jobs = Append(@, job_row(d.next_job, job_data)), !.next_job = @ + 1]

JobDict(row) == [row EXCEPT !.required_skills = loads_or_empty(@)]

get_job_description(d, id) ==
    IF RowsById(d.jobs, id) = <<>> THEN NullV ELSE JobDict(RowsById(d.jobs, id)[1])

get_all_jobs(d) ==
    LET rows == Reverse(d.jobs) IN [k \in 1..Len(rows) |-> JobDict(rows[k])]

\* the row save_match_result inserts: the match_results table has no
\* recommendation column
match_row(id, match_data) ==
    [id |-> id, resume_id |-> match_data.resume_id, job_id |-> match_data.job_id,
     match_score |-> match_data.match_score, justification |-> match_data.justification,
     matched_skills |-> StrV(dumps(ListV(match_data.matched_skills))),
     missing_skills |-> StrV(dumps(ListV(match_data.missing_skills))),
     overall_assessment |-> match_data.overall_assessment]

\* a storage that keeps one row per (resume, job) pair
save_match_result_upsert(d, match_data) ==
    LET others == SelectSeq(d.matches, LAMBDA r :
                      ~(r.resume_id = match_data.resume_id /\ r.job_id = match_data.job_id))
    IN  [d EXCEPT !.matches = Append(others, match_row(d.next_match, match_data)),
                  !.next_match = @ + 1]

save_match_result(d, match_data) ==
    [d EXCEPT !.matches = Append(@, match_row(d.next_match, match_data)),
              !.next_match = @ + 1]

\* get_matches_for_job: the rows of the job whose resume still exists,
\* joined with the resume's name, email and phone, best score first
get_matches_for_job(d, job_id) ==
    LET rows == SelectSeq(d.matches, LAMBDA r :
                    r.job_id = job_id /\ RowsById(d.resumes, r.resume_id) # <<>>)
        Joined(r) ==
            LET resume == RowsById(d.resumes, r.resume_id)[1]
            IN  [id |-> r.id, resume_id |-> r.resume_id, job_id |-> r.job_id,
                 match_score |-> r.match_score, justification |-> r.justification,
                 matched_skills |-> loads_or_empty(r.matched_skills),
                 missing_skills |-> loads_or_empty(r.missing_skills),
                 overall_assessment |-> r.overall_assessment,
                 candidate_name |-> resume.candidate_name, email |-> resume.email,
                 phone |-> resume.phone]
    IN  sort_results([k \in 1..Len(rows) |-> Joined(rows[k])])

\* get_all_matches: every match row whose resume is stored (JOIN resumes),
\* newest first
get_all_matches(d) ==
    Reverse(SelectSeq(d.matches, LAMBDA r : RowsById(d.resumes, r.resume_id) # <<>>))

\* get_match_statistics: the counts (the average score is left out)
get_match_statistics(d) ==
    [total_resumes |-> Len(d.resumes), total_jobs |-> Len(d.jobs),
     total_matches |-> Len(d.matches)]

\* what the matcher reads of a stored resume and of a stored job with
\* dict.get: a stored resume has no 'experience_years'
MatcherResume(r) ==
    [id |-> r.id, candidate_name |-> r.candidate_name, email |-> r.email,
     skills |-> r.skills, experience_years |-> MissingV]

MatcherJob(j) ==
    [job_title |-> j.job_title, required_skills |-> j.required_skills,
     job_description |-> j.job_description, experience_required |-> j.experience_required]

\* add_job_description: required_skills as sent when a list, else split at
\* the commas; a missing title or description is refused
AddJob(data) ==
    /\ pc = "idle"
    /\ LET job_title == data.job_title
           required == Get(data.required_skills, ListV(<<>>))
           description == Get(data.job_description, StrV(<<>>))
           Falsy(v) == v.kind \in {"missing", "null"} \/ v.val = <<>>
       IN  IF Falsy(job_title) \/ Falsy(description)
           THEN /\ http' = Answer("add_job", data, 400,
                                  "Job title and description are required", <<>>)
                /\ UNCHANGED db
           ELSE IF required.kind \notin {"list", "str"}
           THEN /\ http' = Answer("add_job", data, 500, "Failed to add job description", <<>>)
                /\ UNCHANGED db
           ELSE LET job_data ==
                        [job_title |-> job_title,
                         required_skills |->
                             IF required.kind = "list" THEN required
                             ELSE ListV(split(required.val, ",")),
                         experience_required |-> StrV(W("2-4 years")),
                         job_description |-> description]
                IN  /\ db' = save_job_description(db, job_data)
                    /\ http' = Answer("add_job", data, 201, "", <<db.next_job>>)
    /\ pc' = "done"
    /\ UNCHANGED <<files, extract>>
    /\ UNCHANGED matcher_vars

\* match_candidates up to the call of batch_match_resumes
MatchRequest(job_id, resume_ids) ==
    /\ pc = "idle"
    /\ LET arg == [job_id |-> job_id, resume_ids |-> resume_ids]
           stored_job == get_job_description(db, job_id)
           found == SelectSeq([k \in 1..Len(resume_ids) |-> get_resume(db, resume_ids[k])],
                              LAMBDA r : r # NullV)
           chosen == IF resume_ids # <<>> THEN found ELSE get_all_resumes(db)
       IN  IF job_id = 0
           THEN /\ http' = Answer("match", arg, 400, "Job ID required", <<>>)
                /\ pc' = "done"
                /\ UNCHANGED matcher_vars
           ELSE IF stored_job = NullV
           THEN /\ http' = Answer("match", arg, 404, "Job not found", <<>>)
                /\ pc' = "done"
                /\ UNCHANGED matcher_vars
           ELSE IF chosen = <<>>
           THEN /\ http' = Answer("match", arg, 404, "No resumes found", <<>>)
                /\ pc' = "done"
                /\ UNCHANGED matcher_vars
           ELSE /\ http' = Req("match", arg)
                /\ resumes' = [k \in 1..Len(chosen) |-> MatcherResume(chosen[k])]
                /\ job' = MatcherJob(stored_job)
                /\ i' = 1
                /\ prompt' = NoValue
                /\ llm_response' = NullV
                /\ match_result' = NoResult
                /\ results' = <<>>
                /\ calls' = <<>>
                /\ via' = ""
                /\ raised' = ""
                /\ pc' = "prompt"
    /\ UNCHANGED <<db, files, extract>>

\* the rows of one match call, saved in the order of the results
RECURSIVE save_matches(_, _, _)
save_matches(d, job_id, rs) ==
    IF rs = <<>> THEN d
    ELSE save_matches(
             save_match_result(d, [resume_id |-> Head(rs).resume_id, job_id |-> job_id,
                                   match_score |-> Head(rs).match_score,
                                   justification |-> Head(rs).justification,
                                   matched_skills |-> Head(rs).matched_skills,
                                   missing_skills |-> Head(rs).missing_skills,
                                   overall_assessment |-> Head(rs).overall_assessment]),
             job_id, Tail(rs))

\* match_candidates after batch_match_resumes returned: one row per result
SaveMatches ==
    /\ pc = "returned"
    /\ http.op = "match"
    /\ db' = save_matches(db, http.arg.job_id, results)
    /\ http' = [http EXCEPT !.status = 200, !.body = results]
    /\ pc' = "done"
    /\ UNCHANGED <<files, extract>>
    /\ UNCHANGED matcher_vars

\* match_candidates when batch_match_resumes raised: answered 500
MatchFailed ==
    /\ pc = "raised"
    /\ http.op = "match"
    /\ http' = [http EXCEPT !.status = 500, !.error = "Matching failed"]
    /\ pc' = "done"
    /\ UNCHANGED <<db, files, extract>>
    /\ UNCHANGED matcher_vars

\* delete_resume and delete_job: the row of the one table, nothing else
DeleteResume(id) ==
    /\ pc = "idle"
    /\ IF get_resume(db, id) = NullV
       THEN /\ http' = Answer("delete_resume", id, 404, "Resume not found", <<>>)
            /\ UNCHANGED db
       ELSE /\ db' = [db EXCEPT !.resumes = SelectSeq(@, LAMBDA r : r.id # id)]
            /\ http' = Answer("delete_resume", id, 200, "", <<>>)
    /\ pc' = "done"
    /\ UNCHANGED <<files, extract>>
    /\ UNCHANGED matcher_vars

DeleteJob(id) ==
    /\ pc = "idle"
    /\ IF get_job_description(db, id) = NullV
       THEN /\ http' = Answer("delete_job", id, 404, "Job not found", <<>>)
            /\ UNCHANGED db
       ELSE /\ db' = [db EXCEPT !.jobs = SelectSeq(@, LAMBDA r : r.id # id)]
            /\ http' = Answer("delete_job", id, 200, "", <<>>)
    /\ pc' = "done"
    /\ UNCHANGED <<files, extract>>
    /\ UNCHANGED matcher_vars

\* the reading operations of the storage layer, as a caller gets them
Read(op, id) ==
    /\ pc = "idle"
    /\ LET one(x) == IF x = NullV THEN <<>> ELSE <<x>>
           body == CASE op = "get_resume" -> one(get_resume(db, id))
                     [] op = "get_all_resumes" -> get_all_resumes(db)
                     [] op = "get_job_description" -> one(get_job_description(db, id))
                     [] op = "get_all_jobs" -> get_all_jobs(db)
                     [] op = "get_matches_for_job" -> get_matches_for_job(db, id)
       IN  http' = Answer(op, id, 200, "", body)
    /\ pc' = "done"
    /\ UNCHANGED <<db, files, extract>>
    /\ UNCHANGED matcher_vars

ReadOps ==
    {"get_resume", "get_all_resumes", "get_job_description", "get_all_jobs",
     "get_matches_for_job"}

\* the handler has answered; the next request may come
NextRequest ==
    /\ pc = "done"
    /\ http.count < MaxRequests
    /\ pc' = "idle"
    /\ UNCHANGED <<db, files, http, extract>>
    /\ UNCHANGED matcher_vars

\* the inputs of the requests
SkillsAsList == <<W("Python"), W("Flask"), W("Docker")>>

SkillsAsString == <<"Python", ",", " ", "Flask", ",", " ", "Docker">>

JobPayload(title, required, description) ==
    [job_title |-> title, required_skills |-> required, job_description |-> description]

JobPayloads ==
    {JobPayload(StrV(W("Backend Developer")), r, SomeText) :
         r \in {ListV(SkillsAsList), StrV(SkillsAsString), StrV(<<>>), MissingV, NullV}}
    \cup {JobPayload(MissingV, ListV(SkillsAsList), SomeText),
          JobPayload(StrV(W("Backend Developer")), ListV(SkillsAsList), StrV(<<>>))}

StoreIds == 0..2

ResumeIdLists == {<<>>, <<1>>, <<2, 1>>}

StoreFilenames == {StrV(<<"cv", ".", "pdf">>)}

StoreReadings == {<<StrV(W("Jane Roe"))>>}

\* the language model is down, or answers with a score
StoreOutcomes ==
    {[kind |-> "error", val |-> <<>>], [kind |-> "text", val |-> ScoreReply(<<"8">>)]}

\* storage before the first request: empty, or one resume and one job
Seeded ==
    save_job_description(
        save_resume(EmptyDb, FullProfile, upload_path(<<"old", ".", "pdf">>), W("Jane Roe")),
        [job_title |-> StrV(W("Backend Developer")), required_skills |-> ListV(SkillsAsList),
         experience_required |-> StrV(W("2-4 years")), job_description |-> SomeText])

InitStore ==
    /\ pc = "idle"
    /\ MatcherIdle
    /\ db \in {EmptyDb, Seeded}
    /\ files = {}
    /\ http = NoRequest
    /\ extract = NoExtract

NextStore ==
    \/ \E f \in StoreFilenames : UploadRequest(f)
    \/ SaveFile
    \/ ParseResume
    \/ \E r \in StoreReadings : Pdfplumber(r)
    \/ \E p \in ParsedProfiles : ExtractFields(p)
    \/ SaveResume
    \/ \E data \in JobPayloads : AddJob(data)
    \/ \E j \in StoreIds, rs \in ResumeIdLists : MatchRequest(j, rs)
    \/ BuildPrompt
    \/ \E o \in StoreOutcomes : GenerateLLM(o)
    \/ Fallback
    \/ Parse
    \/ Collect
    \/ SortReturn
    \/ SaveMatches
    \/ \E id \in StoreIds : DeleteResume(id)
    \/ \E id \in StoreIds : DeleteJob(id)
    \/ \E op \in ReadOps, id \in StoreIds : Read(op, id)
    \/ NextRequest

SpecStore == InitStore /\ [][NextStore]_vars

(***************************************************************************)
(* The field extractors of ResumeParser.  A text is a sequence of tokens:  *)
(* a word, a punctuation mark, a blank or a line break each; a digit is    *)
(* always a token of its own.  Adjacent tokens are adjacent characters.    *)
(***************************************************************************)
MaxPhrases == 2

MaxEntries == 6

\* len(s): the characters of a text
RECURSIVE CharLen(_)
CharLen(s) == IF s = <<>> THEN 0 ELSE Len(Head(s)) + CharLen(Tail(s))

DigitTok(d) ==
    CASE d = 0 -> "0" [] d = 1 -> "1" [] d = 2 -> "2" [] d = 3 -> "3" [] d = 4 -> "4"
      [] d = 5 -> "5" [] d = 6 -> "6" [] d = 7 -> "7" [] d = 8 -> "8" [] d = 9 -> "9"

\* str(n) of a non-negative int
RECURSIVE str_int(_)
str_int(n) == IF n < 10 THEN <<DigitTok(n)>> ELSE str_int(n \div 10) \o <<DigitTok(n % 10)>>

\* the words that begin with "year"
StartsYear(tok) == tok \in {"year", "years", "yearly"}

\* (\d+)\+?\s*years? at q, q the start of a run of digits: the index of the
\* run's last digit, 0 when the pattern does not match there
YearsAt(t, q) ==
    IF IsDigit(t[q])
    THEN LET e == DigitRunEnd(t, q)
             p == IF e < Len(t) /\ t[e + 1] = "+" THEN e + 2 ELSE e + 1
             y == SpaceRunEnd(t, p) + 1
         IN  IF y <= Len(t) /\ StartsYear(t[y]) THEN e ELSE 0
    ELSE 0

\* [int(match[0]) for match in re.findall(exp_pattern, text.lower())]
year_matches(t) ==
    {DigitsVal(SubSeq(t, q, YearsAt(t, q))) :
        q \in {k \in 1..Len(t) : /\ (k = 1 \/ ~IsDigit(t[k - 1]))
                                 /\ YearsAt(t, k) # 0}}

\* the first match wins, as for the email and the phone
first_year(ys, t) ==
    LET q == CHOOSE k \in 1..Len(t) :
                 /\ (k = 1 \/ ~IsDigit(t[k - 1]))
                 /\ YearsAt(t, k) # 0
                 /\ \A m \in 1..(k - 1) : ~((m = 1 \/ ~IsDigit(t[m - 1])) /\ YearsAt(t, m) # 0)
    IN  DigitsVal(SubSeq(t, q, YearsAt(t, q)))

\* max(years)
max_year(ys, t) == CHOOSE n \in ys : \A m \in ys : m <= n

\* the words the experience pattern starts and stops at (substrings of the
\* lower-cased text)
IsExperienceHeading(tok) == tok \in {"experience", "employment"}

IsExperienceStop(tok) == tok \in {"education", "skills", "projects", "certifications"}

\* group 2 of (work experience|experience|...)(.*?)(education|skills|...|$)
\* at its first match; Null when there is none
experience_section(t) ==
    IF \E k \in 1..Len(t) : IsExperienceHeading(t[k])
    THEN LET k == CHOOSE k \in 1..Len(t) :
                      IsExperienceHeading(t[k]) /\ \A m \in 1..(k - 1) : ~IsExperienceHeading(t[m])
             e == CHOOSE e \in (k + 1)..(Len(t) + 1) :
                      /\ (e = Len(t) + 1 \/ IsExperienceStop(t[e]))
                      /\ \A m \in (k + 1)..(e - 1) : ~IsExperienceStop(t[m])
         IN  StrV(SubSeq(t, k + 1, e - 1))
    ELSE NullV

\* \n\s*\n at a: the index of the line break that ends it (the last one of
\* the white space that starts at a), 0 when a starts no such separator
BlankLineAt(s, a) ==
    IF s[a] = "\n" /\ \E e \in (a + 1)..SpaceRunEnd(s, a) : s[e] = "\n"
    THEN CHOOSE e \in (a + 1)..SpaceRunEnd(s, a) :
             s[e] = "\n" /\ \A m \in (e + 1)..SpaceRunEnd(s, a) : s[m] # "\n"
    ELSE 0

\* re.split(r'\n\s*\n', s)
RECURSIVE blank_line_split(_)
blank_line_split(s) ==
    IF \E a \in 1..Len(s) : BlankLineAt(s, a) # 0
    THEN LET a == CHOOSE a \in 1..Len(s) :
                      BlankLineAt(s, a) # 0 /\ \A m \in 1..(a - 1) : BlankLineAt(s, m) = 0
         IN  <<SubSeq(s, 1, a - 1)>> \o blank_line_split(SubSeq(s, BlankLineAt(s, a) + 1, Len(s)))
    ELSE <<s>>

MinEntryLen == 20

ExperienceCap == 5

\* the entries longer than 20 characters, stripped (an entry's description is
\* its first 200 characters: the whole entry for the texts of this model)
RECURSIVE experience_entries(_)
experience_entries(pieces) ==
    IF pieces = <<>> THEN <<>>
    ELSE (IF CharLen(strip(Head(pieces))) > MinEntryLen
          THEN <<[description |-> strip(Head(pieces)), full_text |-> strip(Head(pieces))]>>
          ELSE <<>>)
         \o experience_entries(Tail(pieces))

extract_experience(text) ==
    LET sec == experience_section(lower(text))
    IN  IF sec = NullV THEN <<>>
        ELSE Take(experience_entries(blank_line_split(sec.val)), ExperienceCap)

calculate_experience_years(text) ==
    LET t == lower(text)
        years == year_matches(t)
        experiences == extract_experience(text)
    IN  IF years # {} THEN str_int(max_year(years, t)) \o <<" ", "years">>
        ELSE IF Len(experiences) > 0
        THEN <<"~">> \o str_int(Len(experiences)) \o <<" ", "positions">>
        ELSE <<"Not specified">>

\* common_skills: the terms of the vocabulary this model reads, in the
\* order of the list
common_skills == <<"python", "java", "javascript", "c++", "c#", "go", "node.js", "sql">>

\* str.title on a term of the vocabulary
title(skill) ==
    CASE skill = "python" -> "Python"
      [] skill = "java" -> "Java"
      [] skill = "javascript" -> "Javascript"
      [] skill = "c++" -> "C++"
      [] skill = "c#" -> "C#"
      [] skill = "go" -> "Go"
      [] skill = "node.js" -> "Node.Js"
      [] skill = "sql" -> "Sql"

\* tokens without a word character (\w)
NonWordTokens == {" ", "\n", ",", ".", "/", "+", "-", ":", "~", "(", ")", "@", "#"}

\* tokens whose last character is no word character
EndsNonWord == {"c++", "c#", "C++", "C#", "A.", "Jr."}

FirstIsWord(tok) == tok \notin NonWordTokens

LastIsWord(tok) == tok \notin NonWordTokens /\ tok \notin EndsNonWord

\* re.search(r'\b' + re.escape(skill) + r'\b', t): \b holds between a word
\* character and a non-word character (or an end of the text), so after a
\* term that ends in '+' or '#' it asks for a word character to follow
skill_found(t, skill) ==
    \E k \in 1..Len(t) :
        /\ t[k] = skill
        /\ (k = 1 \/ ~LastIsWord(t[k - 1]))
        /\ IF LastIsWord(skill)
           THEN k = Len(t) \/ ~FirstIsWord(t[k + 1])
           ELSE k < Len(t) /\ FirstIsWord(t[k + 1])

\* the titles in the order of their code points, as sorted() compares them
TitleOrder == <<"C#", "C++", "Go", "Java", "Javascript", "Node.Js", "Python", "Sql">>

\* sorted(list(set(found_skills)))
sorted_set(found) == SelectSeq(TitleOrder, LAMBDA x : x \in Range(found))

extract_skills(text) ==
    LET text_lower == lower(text)
        hits == SelectSeq(common_skills, LAMBDA skill : skill_found(text_lower, skill))
        found_skills == [k \in 1..Len(hits) |-> title(hits[k])]
        sorted == sorted_set(found_skills)
    IN  [k \in 1..Len(sorted) |-> W(sorted[k])]

\* '@' in line
HasAt(line) == \E k \in 1..Len(line) : line[k] \in {"@", "jane@roe.io"}

\* \d{3}[-.\s]?\d{3}[-.\s]?\d{4} matching at q
PhoneAt(l, q) ==
    LET Digits(a, n) == a + n - 1 <= Len(l) /\ \A k \in a..(a + n - 1) : IsDigit(l[k])
        Sep(a) == IF a <= Len(l) /\ l[a] \in {"-", ".", " ", "\n"} THEN {a, a + 1} ELSE {a}
    IN  /\ Digits(q, 3)
        /\ \E b \in Sep(q + 3) :
              /\ Digits(b, 3)
              /\ \E c \in Sep(b + 3) : Digits(c, 4)

\* re.search(r'\d{3}[-.\s]?\d{3}[-.\s]?\d{4}', line)
HasPhone(line) == \E q \in 1..Len(line) : PhoneAt(line, q)

\* tokens that are not letters only, periods apart
NonAlphaTokens ==
    NonWordTokens \cup {"jane@roe.io", "c++", "c#", "C++", "C#"}
        \cup {"0", "1", "2", "3", "4", "5", "6", "7", "8", "9"}

\* line.split(): the runs of tokens between white space
RECURSIVE words(_)
words(line) ==
    LET l == lstrip(line)
    IN  IF l = <<>> THEN <<>>
        ELSE LET e == CHOOSE e \in 1..Len(l) :
                          /\ \A k \in 1..e : ~IsSpace(l[k])
                          /\ (e = Len(l) \/ IsSpace(l[e + 1]))
             IN  <<SubSeq(l, 1, e)>> \o words(SubSeq(l, e + 1, Len(l)))

\* word.replace('.', '').isalpha()
is_alpha_without_periods(word) ==
    /\ \A k \in 1..Len(word) : word[k] = "." \/ word[k] \notin NonAlphaTokens
    /\ \E k \in 1..Len(word) : word[k] # "."

\* a name line of any number of words
is_name_line_any_length(line) ==
    /\ ~(HasAt(line) \/ HasPhone(line))
    /\ \A k \in 1..Len(words(line)) : is_alpha_without_periods(words(line)[k])

\* the test of one (stripped) line: not skipped for an '@' or a phone
\* number, 2 to 4 words, each alphabetic without its periods
is_name_line(line) ==
    /\ ~(HasAt(line) \/ HasPhone(line))
    /\ 2 <= Len(words(line))
    /\ Len(words(line)) <= 4
    /\ \A k \in 1..Len(words(line)) : is_alpha_without_periods(words(line)[k])

NameLines == 5

\* extract_contact_info: the name
extract_name(text) ==
    LET all == split(strip(text), "\n")
        lines == [k \in 1..Len(Take(all, NameLines)) |-> strip(all[k])]
    IN  IF \E k \in 1..Len(lines) : is_name_line(lines[k])
        THEN lines[CHOOSE k \in 1..Len(lines) :
                       is_name_line(lines[k]) /\ \A m \in 1..(k - 1) : ~is_name_line(lines[m])]
        ELSE <<"Unknown">>

\* parse_resume after the text was read: one step per extractor (the email,
\* phone, profile links and education extractors are left out: no property
\* below reads them)
NoFields ==
    [candidate_name |-> MissingV, skills |-> MissingV, experience |-> MissingV,
     experience_years |-> MissingV]

ExtractContactInfo ==
    /\ pc = "contact"
    /\ extract' = [extract EXCEPT !.parsed.candidate_name = StrV(extract_name(extract.text))]
    /\ pc' = "skills"
    /\ UNCHANGED <<db, files, http>>
    /\ UNCHANGED matcher_vars

ExtractSkills ==
    /\ pc = "skills"
    /\ extract' = [extract EXCEPT !.parsed.skills = ListV(extract_skills(extract.text))]
    /\ pc' = "experience"
    /\ UNCHANGED <<db, files, http>>
    /\ UNCHANGED matcher_vars

ExtractExperience ==
    /\ pc = "experience"
    /\ extract' = [extract EXCEPT !.parsed.experience = DictsV(extract_experience(extract.text))]
    /\ pc' = "years"
    /\ UNCHANGED <<db, files, http>>
    /\ UNCHANGED matcher_vars

CalculateExperienceYears ==
    /\ pc = "years"
    /\ extract' = [extract EXCEPT
                      !.parsed.experience_years = StrV(calculate_experience_years(extract.text))]
    /\ pc' = "extracted"
    /\ UNCHANGED <<db, files, http>>
    /\ UNCHANGED matcher_vars

\* the texts read: lines joined by line breaks
RECURSIVE JoinLines(_)
JoinLines(ls) ==
    IF ls = <<>> THEN <<>>
    ELSE IF Len(ls) = 1 THEN ls[1]
    ELSE ls[1] \o <<"\n">> \o JoinLines(Tail(ls))

RECURSIVE Copies(_, _)
Copies(x, n) == IF n = 0 THEN <<>> ELSE <<x>> \o Copies(x, n - 1)

YearPhrases ==
    {<<"5", "+", " ", "years", " ", "of", " ", "experience">>,
     <<"3", " ", "years", " ", "of", " ", "experience">>,
     <<"1", "2", " ", "Years">>,
     <<"2", "year">>,
     <<"0", "7", " ", "years">>,
     <<"5", " ", "+", " ", "years">>,
     <<"since", " ", "2", "0", "1", "9">>,
     <<"five", " ", "years">>}

LongEntry == <<"built", " ", "payment", " ", "services", " ", "at", " ", "acme">>

ShortEntry == <<"intern", " ", "at", " ", "acme">>

\* k entries under a heading, blank lines between them
RECURSIVE EntryBlock(_, _)
EntryBlock(k, sep) ==
    IF k = 0 THEN <<>>
    ELSE IF k = 1 THEN LongEntry
    ELSE LongEntry \o sep \o EntryBlock(k - 1, sep)

ExperienceSections ==
    {<<h, "\n">> \o EntryBlock(k, sep) \o tail :
        h \in {"Experience", "EXPERIENCE", "employment", "History"},
        k \in 0..MaxEntries,
        sep \in {<<"\n", "\n">>, <<"\n", " ", "\n", "\n">>, <<"\n">>},
        tail \in {<<>>,
                  <<"\n", "\n">> \o ShortEntry,
                  <<"\n", "Education", "\n">> \o LongEntry,
                  <<"\n", "Skills", ":", " ", "Python", "\n", "\n">> \o LongEntry}}

YearTexts ==
    {JoinLines(ps) \o sec :
        ps \in SeqsUpTo(YearPhrases, MaxPhrases),
        sec \in {<<>>, <<"\n", "Experience", "\n">> \o EntryBlock(2, <<"\n", "\n">>)}}

MaxSkillText == 3

SkillTokens == {"Python", "C++", "c#", "JavaScript", "java", " ", ",", "1"}

SkillTexts == SeqsUpTo(SkillTokens, MaxSkillText)

MaxFill == 6

NameLineSet ==
    {<<"John", " ", "A.", " ", "Doe">>,
     <<"jane@roe.io">>,
     <<"Resume">>,
     <<"5", "5", "5", "-", "1", "2", "3", "-", "4", "5", "6", "7">>,
     <<>>,
     <<"Senior", " ", "Software", " ", "Engineer", " ", "in", " ", "Test">>,
     <<"Jane", " ", "Roe", " ", "jane@roe.io">>,
     <<" ", "Jane", " ", "Roe", " ">>,
     <<"Jane", " ", ".", " ", "Roe">>}

NameTexts ==
    {JoinLines(ls) : ls \in SeqsUpTo(NameLineSet, 2)}
    \cup {JoinLines(Copies(f, k) \o <<n>>) :
            f \in {<<>>, <<"Resume">>, <<"jane@roe.io">>},
            k \in 0..MaxFill,
            n \in {<<"John", " ", "A.", " ", "Doe">>, <<"Jane", " ", "Roe">>}}

FieldTexts == YearTexts \cup ExperienceSections \cup SkillTexts \cup NameTexts

InitFields ==
    /\ pc = "contact"
    /\ MatcherIdle
    /\ db = EmptyDb
    /\ files = {}
    /\ http = NoRequest
    /\ \E text \in FieldTexts :
          extract = [path |-> <<>>, text |-> text, log |-> <<>>, parsed |-> NoFields]

NextFields ==
    \/ ExtractContactInfo
    \/ ExtractSkills
    \/ ExtractExperience
    \/ CalculateExperienceYears

SpecFields == InitFields /\ [][NextFields]_vars

(***************************************************************************)
(* Claims.                                                                 *)
(***************************************************************************)
Abs(x) == IF x < 0 THEN -x ELSE x

\* a score with at most one decimal, in tenths
Tenths(x) == (x.n * 10) \div x.d

Scores(l) == [k \in 1..Len(l) |-> l[k].match_score]
Ids(l) == [k \in 1..Len(l) |-> l[k].resume_id]

\* the language-model call of the running match was made and gave no reply
NoReply == calls # <<>> /\ ~Truthy(llm_response)

\* C1: match_resume_to_job returns the fallback scorer's result whenever the
\* language-model call raises or yields a null or empty reply, and then no
\* exception reaches the caller; for every non-empty reply it returns the
\* parsed result and the fallback scorer is not used.
C1_FallbackOnNoReply ==
    /\ (pc \in {"matched", "raised"} /\ NoReply)
         => /\ pc = "matched"
            /\ via = "fallback"
            /\ match_result \in fallback_matching(resumes[i], job)
    /\ (pc \in {"matched", "raised"} /\ calls # <<>> /\ Truthy(llm_response))
         => /\ pc = "matched"
            /\ via = "parse"
            /\ match_result = parse_llm_response(llm_response.val, resumes[i], job)

\* C2: every result match_resume_to_job returns, parsed or from the fallback
\* scorer, has match_score in [1.0, 10.0].
C2_ScoreInRange ==
    pc = "matched" =>
        /\ Leq(Num(1), match_result.match_score)
        /\ Leq(match_result.match_score, Num(10))

\* a reply "MATCH SCORE: 12.5" was parsed and its score clamped to 10.0
C2_Witness ==
    /\ pc = "matched"
    /\ via = "parse"
    /\ llm_response.val = ScoreReply(<<"1", "2", ".", "5">>)
    /\ match_result.match_score = Num(10)

\* C3: batch_match_resumes returns exactly one result per input resume even
\* when the processing of a resume faults (a null field included): no fault
\* leaves the batch loop.
C3_OneResultPerResume ==
    /\ pc # "raised"
    /\ pc = "returned" => Len(results) = Len(resumes)

\* C4: batch_match_resumes returns the collected per-resume results, each
\* with the resume_id, candidate_name and email of its own resume, as a
\* permutation in descending order of match_score, equal scores in the
\* order of their resumes in the input; [6.4, 8.0, 3.0] comes back as
\* [8.0, 6.4, 3.0].
C4_SortStep ==
    (pc = "sort" /\ pc' = "returned") =>
        /\ Len(results') = Len(resumes)
        /\ \A k \in 1..Len(results) :
              /\ results[k].resume_id = resumes[k].id
              /\ results[k].candidate_name =
                     Get(resumes[k].candidate_name, StrV(W("Unknown")))
              /\ results[k].email = Get(resumes[k].email, NullV)
              /\ \E m \in 1..Len(results') : results'[m] = results[k]
        /\ \A a, b \in 1..Len(results') :
              a < b =>
                  /\ Geq(results'[a].match_score, results'[b].match_score)
                  /\ results'[a].match_score = results'[b].match_score
                         => results'[a].resume_id < results'[b].resume_id
        /\ Scores(results) = <<Dec(64, 10), Num(8), Num(3)>>
              => Scores(results') = <<Num(8), Dec(64, 10), Num(3)>>

C4_SortedStablePermutation == [][C4_SortStep]_vars

\* a batch came back reordered: scores [6.4, 8.0, 3.0] of resumes 1, 2, 3
\* returned as [8.0, 6.4, 3.0] of resumes 2, 1, 3
C4_Witness ==
    /\ pc = "returned"
    /\ Scores(results) = <<Num(8), Dec(64, 10), Num(3)>>
    /\ Ids(results) = <<2, 1, 3>>

\* C5: one batch call over n resumes invokes the language model exactly n
\* times, once per resume in input order, each invocation after the previous
\* resume's result was collected, none repeated.
C5_OneCallPerResume ==
    /\ pc \in {"returned", "raised"}
         => /\ Len(calls) = Len(resumes)
            /\ \A k \in 1..Len(calls) : calls[k].resume = k
    /\ pc = "llm" => (Len(calls) = i - 1 /\ Len(results) = i - 1)

\* C6: for every candidate set C and non-empty required set R (lower-cased),
\* the fallback score is 1 + 9 * |C \cap R| / |R| rounded to one decimal, so
\* it grows with |C \cap R|; the example scores 6.4.
C6_FallbackScore ==
    pc = "matched" =>
        LET C == candidate_skills(resumes[1])
            R == required_skills(job)
            m == Cardinality(C \cap R)
            n == Cardinality(R)
            s == match_result.match_score
        IN  /\ n > 0 =>
                  /\ s.d \in {1, 10}
                  /\ 2 * Abs(Tenths(s) * n - (10 * n + 90 * m)) <= n
                  /\ \A k \in 0..m : Leq(fallback_score(1..k, R), s)
            /\ (/\ resumes[1].skills = ListV(ExampleCandidate)
                /\ job.required_skills = ListV(ExampleRequired))
                  => s = Dec(64, 10)

\* the example of __main__: 3 of 5 required skills, score 6.4
C6_Witness ==
    /\ pc = "matched"
    /\ resumes[1].skills = ListV(ExampleCandidate)
    /\ job.required_skills = ListV(ExampleRequired)
    /\ match_result.match_score = Dec(64, 10)

\* the job names no required skill: an empty list, or a comma-delimited
\* string whose pieces are all blank
NamesNoSkill(v) ==
    \/ v.kind = "list" /\ v.val = <<>>
    \/ v.kind = "str" /\ \A s \in Range(split(v.val, ",")) : strip(s) = <<>>

\* C7: when the job has no required skills, as an empty sequence or as a
\* comma-delimited string that names no skill (the empty string), the
\* fallback score is exactly 5.0 for every candidate.
C7_NoRequiredSkillsScoresFive ==
    (pc = "matched" /\ NamesNoSkill(job.required_skills))
        => match_result.match_score = Num(5)

\* the entries of the job's required skills: the elements of the list, the
\* stripped pieces of the comma-delimited string
Entries(v) ==
    IF v.kind = "str" THEN {strip(s) : s \in Range(split(v.val, ","))} ELSE Range(v.val)

\* C8: under the fallback scorer matched_skills and missing_skills share no
\* element, and every element of either is, lower-cased, one of the job's
\* required skills.
C8_MatchedMissingDisjoint ==
    pc = "matched" =>
        LET ms == Range(match_result.matched_skills)
            xs == Range(match_result.missing_skills)
        IN  /\ ms \cap xs = {}
            /\ \A x \in ms \cup xs :
                  \E e \in Entries(job.required_skills) : lower(e) = x

\* the example: three skills matched, two missing
C8_Witness ==
    /\ pc = "matched"
    /\ Range(match_result.matched_skills) = {W("python"), W("flask"), W("docker")}
    /\ Range(match_result.missing_skills) = {W("postgresql"), W("aws")}

\* C9: the fallback recommendation is "Strong Hire" for a score >= 8,
\* "Consider" for a score >= 5 and < 8, "Pass" otherwise, never "Maybe"; the
\* justification is the "Strong" text for a score >= 7, the "Moderate" text
\* for a score >= 4, the "Limited" text otherwise.
C9_FallbackLabels ==
    pc = "matched" =>
        LET t == Tenths(match_result.match_score)
        IN  /\ match_result.recommendation =
                   (IF t >= 80 THEN W("Strong Hire")
                    ELSE IF t >= 50 THEN W("Consider") ELSE W("Pass"))
            /\ match_result.recommendation # W("Maybe")
            /\ match_result.justification.kind =
                   (IF t >= 70 THEN "Strong" ELSE IF t >= 40 THEN "Moderate" ELSE "Limited")

\* a score between 7 and 8: the "Strong" justification with "Consider"
C9_Witness ==
    /\ pc = "matched"
    /\ Tenths(match_result.match_score) \in 70..79
    /\ match_result.recommendation = W("Consider")
    /\ match_result.justification.kind = "Strong"

\* C10: every result match_resume_to_job returns, parsed or from the
\* fallback scorer, has at most 10 matched_skills and at most 10
\* missing_skills.
C10_SkillListsCapped ==
    pc = "matched" =>
        /\ Len(match_result.matched_skills) <= SkillCap
        /\ Len(match_result.missing_skills) <= SkillCap

\* the reply that was parsed, and the fields the parser made of it
Reply == llm_response.val
Parsed == pc = "matched" /\ via = "parse"
Absent(h) == \A p \in 1..Len(Reply) : Reply[p] # h

\* the number a reply wrote, brought into [1, 10]
Clamped(x) == IF Less(Num(10), x) THEN Num(10) ELSE IF Less(x, Num(1)) THEN Num(1) ELSE x

\* the fields of match_result are those of content c, the lists cut to the
\* cap of a MatchResult's skill lists
Recovers(c) ==
    /\ match_result.match_score = Clamped(c.score.value)
    /\ match_result.matched_skills = Take(c.matched, SkillCap)
    /\ match_result.missing_skills = Take(c.missing, SkillCap)
    /\ match_result.justification.a = c.justification
    /\ match_result.recommendation = c.recommendation

\* C11: every result match_resume_to_job returns, for every reply of the
\* language model and on the fallback path, has a recommendation that is
\* one of "Strong Hire", "Consider", "Maybe", "Pass".
C11_RecommendationIsLabel ==
    pc = "matched" => match_result.recommendation \in Labels

\* C12: parsing a non-empty reply never fails, and each field whose heading
\* is not in the reply takes its default (score 5.0, no matched skills, no
\* missing skills, empty justification, recommendation "Consider") whatever
\* the other sections are; a reply with none of the five headings yields the
\* full default record.
C12_DefaultsPerField ==
    /\ (calls # <<>> /\ Truthy(llm_response)) => pc \in {"parsing", "matched"}
    /\ Parsed =>
        /\ Absent("MATCH SCORE") => match_result.match_score = Dec(50, 10)
        /\ Absent("MATCHED SKILLS") => match_result.matched_skills = <<>>
        /\ Absent("MISSING SKILLS") => match_result.missing_skills = <<>>
        /\ Absent("JUSTIFICATION") => match_result.justification.a = <<>>
        /\ Absent("RECOMMENDATION") => match_result.recommendation = W("Consider")

\* a reply of prose only was parsed into the full default record
C12_Witness ==
    /\ Parsed
    /\ Reply = Preamble
    /\ match_result.match_score = Dec(50, 10)
    /\ match_result.matched_skills = <<>>
    /\ match_result.missing_skills = <<>>
    /\ match_result.justification.a = <<>>
    /\ match_result.recommendation = W("Consider")

C14_OrderIndependent ==
    Parsed => \A o \in SectionOrders :
                  Reply = Assemble(SampleContent, o) => Recovers(SampleContent)

\* the attempts of the extraction strategies on the uploaded file, in order
Log == extract.log
Attempt(strategy, result) == [strategy |-> strategy, result |-> result]
PdfAttempted == Log # <<>> /\ Log[1].strategy = "pdfplumber"
PdfFailed ==
    /\ pc = "done"
    /\ http.status = 500
    /\ http.error = "Failed to parse resume: Failed to extract text from PDF"

\* C15: for a PDF the layout-aware strategy (pdfplumber) is attempted
\* first; the page-by-page strategy (PyPDF2) is attempted if and only if
\* the first raised, an empty text of the first not being a fault; the
\* extraction fails if and only if both raise, and otherwise yields text.
C15_PdfStrategies ==
    /\ \A k \in 1..Len(Log) :
          Log[k].strategy = "PyPDF2" => k = 2 /\ Log[1] = Attempt("pdfplumber", "raised")
    /\ PdfAttempted =>
          /\ Log[1].result = "raised"
                <=> (pc = "pypdf2" \/ (Len(Log) = 2 /\ Log[2].strategy = "PyPDF2"))
          /\ PdfFailed <=> (Len(Log) = 2 /\ Log[2].result = "raised")
          /\ (~PdfFailed /\ pc # "pypdf2") =>
                /\ pc \in {"fields", "store", "done"}
                /\ Log[Len(Log)].result = "ok"
                /\ pc = "done" => http.status = 201

\* pdfplumber read a PDF without any text: no second strategy, no failure
C15_Witness ==
    /\ pc = "done"
    /\ http.status = 201
    /\ Log = <<Attempt("pdfplumber", "ok")>>
    /\ extract.text = <<>>

\* the name ends in ".pdf" or ".docx", whatever the case of the letters
HasAllowedExtension(f) ==
    /\ f.kind = "str"
    /\ Len(f.val) >= 2
    /\ f.val[Len(f.val) - 1] = "."
    /\ LowerTok(f.val[Len(f.val)]) \in {"pdf", "docx"}

\* C16: upload_resume accepts only a file name whose last extension is pdf
\* or docx in any case; every other name is answered with an error (the
\* format error when a name was given) and no file is saved, no extraction
\* strategy runs and no resume record is created; parse_resume rejects any
\* path not ending in .pdf or .docx before any strategy runs.
C16_OnlyPdfDocx ==
    /\ (http.op = "upload_resume" /\ ~HasAllowedExtension(http.arg)) =>
          /\ pc = "done"
          /\ http.status = 400
          /\ (http.arg.kind = "str" /\ http.arg.val # <<>>) => http.error = "Invalid file type"
          /\ files = {}
          /\ Log = <<>>
          /\ db \in StoredBefore
    /\ (pc = "done" /\ http.status = 201) => HasAllowedExtension(http.arg)
    /\ (extract.path # <<>> /\ pc \notin {"parse"}
        /\ ~EndsWithExt(extract.path, "pdf") /\ ~EndsWithExt(extract.path, "docx")) =>
          /\ Log = <<>>
          /\ pc = "done"
          /\ http.status = 500
          /\ db \in StoredBefore

\* "cv.txt" was refused with the format error, nothing saved or extracted
C16_Witness ==
    /\ pc = "done"
    /\ http.arg = StrV(<<"cv", ".", "txt">>)
    /\ http.status = 400
    /\ http.error = "Invalid file type"
    /\ files = {}
    /\ Log = <<>>

\* the extraction of the uploaded file failed: the last strategy raised
ExtractionFailed ==
    /\ Log # <<>>
    /\ Log[Len(Log)].result = "raised"
    /\ Log[Len(Log)].strategy \in {"PyPDF2", "docx"}

\* C17: when text extraction fails during upload_resume (both PDF
\* strategies, or the DOCX strategy), the upload ends with an error
\* reported to the caller, the stored resume records are unchanged, and no
\* strategy is run a second time on that file.
C17_FailedExtraction ==
    ExtractionFailed =>
        /\ pc = "done"
        /\ http.status = 500
        /\ http.error # ""
        /\ db \in StoredBefore
        /\ extract.parsed = NoExtract.parsed
        /\ \A a, b \in 1..Len(Log) : Log[a].strategy = Log[b].strategy => a = b

\* both PDF strategies raised on an upload into a store holding one resume
C17_Witness ==
    /\ pc = "done"
    /\ Log = <<Attempt("pdfplumber", "raised"), Attempt("PyPDF2", "raised")>>
    /\ http.status = 500
    /\ Len(db.resumes) = 1

\* how many entries of l satisfy Test
Count(l, Test(_)) == Len(SelectSeq(l, Test))

\* the rows a step added at the end of match_results
NewRows == SubSeq(db'.matches, Len(db.matches) + 1, Len(db'.matches))

\* C18: match results are append-only: a successful match call adds exactly
\* one match_results row per matched resume, no step updates or removes a
\* row, so matching the same (resume, job) pair k times leaves k rows; a
\* match call ending in a not-found error adds no row.
C18_Step ==
    /\ Len(db'.matches) >= Len(db.matches)
    /\ SubSeq(db'.matches, 1, Len(db.matches)) = db.matches
    /\ (pc = "returned" /\ pc' = "done") =>
          /\ http'.status = 200
          /\ Len(NewRows) = Len(resumes)
          /\ \A m \in 1..Len(resumes) :
                Count(NewRows, LAMBDA r : r.resume_id = resumes[m].id /\ r.job_id = http.arg.job_id)
                    = Count(resumes, LAMBDA x : x.id = resumes[m].id)
    /\ (pc = "idle" /\ http'.op = "match" /\ http'.status \in {400, 404}) => NewRows = <<>>
    /\ ~(pc = "returned" /\ pc' = "done") => NewRows = <<>>

C18_AppendOnly == [][C18_Step]_vars

\* the same resume was matched to the same job twice: two rows
C18_Witness ==
    /\ pc = "done"
    /\ http.op = "match"
    /\ http.status = 200
    /\ Len(db.matches) = 2
    /\ db.matches[1].resume_id = db.matches[2].resume_id
    /\ db.matches[1].job_id = db.matches[2].job_id
    /\ db.matches[1].id # db.matches[2].id

\* candidates to score a stored job against
ScoredCandidates ==
    {Resume(1, StrV(W("Jane Roe")), NullV, ListV(l)) :
         l \in {SkillsAsList, <<W("Flask")>>, <<>>}}

\* C19: a job submitted with the comma-delimited string "Python, Flask,
\* Docker" is stored as the sequence ["Python", "Flask", "Docker"] and is
\* scored by the fallback scorer as the job submitted with that sequence:
\* same matched set, missing set and score for every candidate.
C19_SameBothForms ==
    (/\ pc = "done"
     /\ http.op = "add_job"
     /\ http.status = 201
     /\ http.arg.required_skills = StrV(SkillsAsString)) =>
        LET stored == get_job_description(db, http.body[1])
            listed == [MatcherJob(stored) EXCEPT !.required_skills = ListV(SkillsAsList)]
        IN  /\ stored.required_skills = ListV(SkillsAsList)
            /\ \A c \in ScoredCandidates :
                  \A a \in fallback_matching(c, MatcherJob(stored)) :
                     \E b \in fallback_matching(c, listed) :
                        /\ a.match_score = b.match_score
                        /\ Range(a.matched_skills) = Range(b.matched_skills)
                        /\ Range(a.missing_skills) = Range(b.missing_skills)

\* the JSON columns of the records each reading operation hands back, and
\* the table their rows are in
JsonFields(op) ==
    CASE op \in {"get_resume", "get_all_resumes"} -> {"skills", "experience", "education"}
      [] op \in {"get_job_description", "get_all_jobs"} -> {"required_skills"}
      [] op = "get_matches_for_job" -> {"matched_skills", "missing_skills"}

TableOf(op) ==
    CASE op \in {"get_resume", "get_all_resumes"} -> db.resumes
      [] op \in {"get_job_description", "get_all_jobs"} -> db.jobs
      [] op = "get_matches_for_job" -> db.matches

\* C20: every record handed back by get_resume, get_all_resumes,
\* get_job_description, get_all_jobs and get_matches_for_job has each of its
\* JSON-encoded fields as a sequence, equal to the sequence that was saved
\* (the one whose encoding is the stored text).
C20_RoundTrip ==
    (pc = "done" /\ http.op \in ReadOps /\ http.status = 200) =>
        \A k \in 1..Len(http.body) : \A f \in JsonFields(http.op) :
            /\ http.body[k][f].kind \in {"list", "dicts"}
            /\ StrV(dumps(http.body[k][f])) = RowsById(TableOf(http.op), http.body[k].id)[1][f]

\* the text the extractors read and the fields they produced
FieldText == extract.text

Fields == extract.parsed

\* the numbers N of the "<N> year(s)" patterns of a (lower-cased) text: a
\* whole run of digits, then at most a '+' and white space, then a word
\* that begins with "year"
YearNumbers(t) ==
    {DigitsVal(SubSeq(t, a, b)) : <<a, b>> \in
        {ab \in (1..Len(t)) \X (1..Len(t)) :
            /\ ab[1] <= ab[2]
            /\ \A k \in ab[1]..ab[2] : IsDigit(t[k])
            /\ (ab[1] = 1 \/ ~IsDigit(t[ab[1] - 1]))
            /\ \E y \in (ab[2] + 1)..Len(t) :
                  /\ StartsYear(t[y])
                  /\ \A k \in (ab[2] + 1)..(y - 1) :
                        (k = ab[2] + 1 /\ t[k] = "+") \/ IsSpace(t[k])}}

\* C21: calculate_experience_years returns "<N> years", N the largest number
\* of the "<N> year(s)" patterns of the text; only without such a pattern
\* "~<count> positions", count the number of extracted experience entries
\* (1 to 5); only when that is zero too, "Not specified".
C21_ExperienceYears ==
    pc = "extracted" =>
        LET ns == YearNumbers(lower(FieldText))
            count == Len(Fields.experience.val)
            got == Fields.experience_years.val
        IN  /\ count <= 5
            /\ ns # {} =>
                  \E n \in ns : /\ \A m \in ns : m <= n
                                /\ got = str_int(n) \o <<" ", "years">>
            /\ (ns = {} /\ count > 0) => got = <<"~", DigitTok(count), " ", "positions">>
            /\ (ns = {} /\ count = 0) => got = <<"Not specified">>

\* "3 years of experience" before "5+ years of experience": "5 years"
C21_Witness ==
    /\ pc = "extracted"
    /\ FieldText = <<"3", " ", "years", " ", "of", " ", "experience", "\n",
                     "5", "+", " ", "years", " ", "of", " ", "experience">>
    /\ Fields.experience_years = StrV(<<"5", " ", "years">>)

\* a term stands in the text as a whole word: no word character before it
\* or after it
WholeWord(t, term) ==
    \E k \in 1..Len(t) :
        /\ t[k] = term
        /\ (k = 1 \/ ~LastIsWord(t[k - 1]))
        /\ (k = Len(t) \/ ~FirstIsWord(t[k + 1]))

\* C22: extract_skills returns exactly the title-cased forms of the
\* vocabulary terms that occur as whole words in the lower-cased text, the
\* terms ending in a non-letter ("c++", "c#") included, nothing else, sorted
\* and without duplicates.
C22_SkillsExactlyVocabulary ==
    pc \in {"experience", "years", "extracted"} =>
        LET t == lower(FieldText)
            got == Fields.skills.val
            Rank(x) == CHOOSE k \in 1..Len(TitleOrder) : TitleOrder[k] = x
        IN  /\ \A k \in 1..Len(common_skills) :
                  WholeWord(t, common_skills[k]) <=> W(title(common_skills[k])) \in Range(got)
            /\ \A k \in 1..Len(got) : \E m \in 1..Len(common_skills) : got[k] = W(title(common_skills[m]))
            /\ \A k \in 1..(Len(got) - 1) : Rank(got[k][1]) < Rank(got[k + 1][1])

\* a line that may be the name: 2 to 4 words, no '@', no phone number, every
\* word alphabetic once its periods are removed
Qualifies(line) ==
    /\ Len(words(line)) \in 2..4
    /\ ~HasAt(line)
    /\ ~HasPhone(line)
    /\ \A k \in 1..Len(words(line)) : is_alpha_without_periods(words(line)[k])

\* the first qualifying line among the first five of lines, or "Unknown"
FirstNameOf(lines) ==
    LET cands == {k \in 1..Len(lines) : k <= 5 /\ Qualifies(lines[k])}
    IN  IF cands = {} THEN <<"Unknown">>
        ELSE strip(lines[CHOOSE k \in cands : \A m \in cands : k <= m])

\* C23: extract_contact_info sets the name to the first of the first five
\* lines of the text that has 2 to 4 whitespace-separated tokens, no '@', no
\* phone-number-shaped substring and only tokens alphabetic once periods
\* are removed; "Unknown" when there is no such line.
C23_NameAmongFirstFiveLines ==
    pc \in {"skills", "experience", "years", "extracted"} =>
        Fields.candidate_name = StrV(FirstNameOf(split(FieldText, "\n")))

\* C23, amended: the lines are those of the text without its leading and
\* trailing white space (blank lines at the start of the text are not
\* counted among the five).
C23_NameAmongFirstFiveStrippedLines ==
    pc \in {"skills", "experience", "years", "extracted"} =>
        Fields.candidate_name = StrV(FirstNameOf(split(strip(FieldText), "\n")))

\* an email on line 1, "John A. Doe" on line 2
C23_Witness ==
    /\ pc = "extracted"
    /\ FieldText = <<"jane@roe.io", "\n", "John", " ", "A.", " ", "Doe">>
    /\ Fields.candidate_name = StrV(<<"John", " ", "A.", " ", "Doe">>)

\* a line that starts with a bullet marker, and what it lists
StartsWithBullet(line) == lstrip(line) # <<>> /\ IsBullet(Head(lstrip(line)))

BulletLinesOf(body) == SelectSeq(split(body, "\n"), StartsWithBullet)

\* the items of a skills section as the specification reads it: the bullet
\* lines when a line starts with a bullet marker, else the pieces between
\* commas; trimmed, empty ones dropped, the first ten
ItemsOf(body) ==
    LET bullets == BulletLinesOf(body)
        items == IF bullets # <<>>
                 THEN [k \in 1..Len(bullets) |-> Tail(lstrip(bullets[k]))]
                 ELSE split(body, ",")
    IN  Take(NonEmptyStripped(items), 10)

\* C24: a MATCHED SKILLS or MISSING SKILLS section without a bullet-marked
\* line is split on commas ("Python, scikit-learn, Docker" gives the three
\* items Python, scikit-learn, Docker); only when a line starts with a bullet
\* marker are the bullet lines used instead.
C24_CommaSplitWithoutBullets ==
    Parsed =>
        \A b \in SkillBodies :
            /\ Reply = SkillsSectionReply("MATCHED SKILLS", b) =>
                  match_result.matched_skills = ItemsOf(b)
            /\ Reply = SkillsSectionReply("MISSING SKILLS", b) =>
                  match_result.missing_skills = ItemsOf(b)

\* C25: when pdfplumber raises after it read some pages and PyPDF2 succeeds,
\* extract_text_from_pdf returns the text of PyPDF2 alone: the step in which
\* PyPDF2 succeeds leaves exactly the text of the pages PyPDF2 read.
C25_Step ==
    (pc = "pypdf2" /\ pc' = "fields") =>
        \E pages \in Readings :
            /\ PyPDF2(pages)
            /\ extract'.text = PagesText(pages, 0, FALSE)

C25_SecondStrategyTextAlone == [][C25_Step]_vars

\* the fields of a resume record parse_resume produces and a reader sees
RecordFields ==
    {"candidate_name", "email", "phone", "linkedin", "github", "skills", "experience_years"}

\* the last upload was parsed and stored under this id
LastUploaded == db.next_resume - 1

\* C26: a resume record is unchanged by persistence except for its id: read
\* back with get_resume or get_all_resumes it carries the candidate_name,
\* email, phone, linkedin, github, skills and experience_years parse_resume
\* produced, and the prompt built for the stored resume shows its experience
\* estimate.
C26_RecordUnchangedByPersistence ==
    "experience_years" \in DOMAIN extract.parsed =>
        /\ (pc = "done" /\ http.op \in {"get_resume", "get_all_resumes"}) =>
              \A k \in 1..Len(http.body) :
                  http.body[k].id = LastUploaded =>
                      \A f \in RecordFields :
                          /\ f \in DOMAIN http.body[k]
                          /\ http.body[k][f] = extract.parsed[f]
        /\ (pc = "llm" /\ resumes[i].id = LastUploaded) =>
              prompt.experience = extract.parsed.experience_years

\* C27: each stored match result keeps every field computed for it: the row
\* get_matches_for_job reads back has the match_score, justification,
\* matched_skills, missing_skills, overall_assessment and recommendation of
\* the result returned by the match call.
C27_MatchFieldsKept ==
    (pc = "done" /\ http.op = "match" /\ http.status = 200) =>
        LET rows == get_matches_for_job(db, http.arg.job_id)
        IN  \A k \in 1..Len(http.body) :
                \E m \in 1..Len(rows) :
                    /\ rows[m].resume_id = http.body[k].resume_id
                    /\ rows[m].match_score = http.body[k].match_score
                    /\ rows[m].justification = http.body[k].justification
                    /\ rows[m].matched_skills = ListV(http.body[k].matched_skills)
                    /\ rows[m].missing_skills = ListV(http.body[k].missing_skills)
                    /\ rows[m].overall_assessment = http.body[k].overall_assessment
                    /\ "recommendation" \in DOMAIN rows[m]
                    /\ rows[m].recommendation = http.body[k].recommendation

\* C28: every stored match row refers to a resume and a job that are still
\* stored, so total_matches equals the number of rows the match listing
\* returns.
C28_MatchRowsReferToStoredRows ==
    /\ \A k \in 1..Len(db.matches) :
          /\ RowsById(db.resumes, db.matches[k].resume_id) # <<>>
          /\ RowsById(db.jobs, db.matches[k].job_id) # <<>>
    /\ get_match_statistics(db).total_matches = Len(get_all_matches(db))

====
